---------------------------- MODULE Spec2Model ----------------------------
(***************************************************************************)
(* Model of the type-trait classifier of rust_ast_parser (src/lib.rs):     *)
(* normalize_token_string, the scalar alias table lookup, analyze_type     *)
(* with its pointer / box metadata, and normalize_stdint_aliases.          *)
(*                                                                         *)
(* Text is modelled character by character: a Rust string is a sequence    *)
(* of one-character strings, so "* mut" is << "*", " ", "m", "u", "t" >>.  *)
(* Option<T> is modelled as a sequence of length at most one: << >> is     *)
(* None and << x >> is Some(x).                                            *)
(***************************************************************************)
EXTENDS Naturals, Sequences, FiniteSets, TLC

VARIABLES
    pc,        \* position of the call being modelled
    text,      \* input of normalize_token_string
    once,      \* normalize_token_string(text)
    twice,     \* normalize_token_string(once)
    table,     \* LIBC_SCALAR_TO_PRIMITIVE: sequence of << alias, primitive >>
    ty,        \* input of parse_type_traits: a parsed syn::Type
    traits,    \* Option<TypeTraits> returned by analyze_type
    items,     \* ast.items before normalize_stdint_aliases
    out,       \* ast.items after normalize_stdint_aliases
    map_text,  \* LIBC_SCALAR_MAP_TEXT, as the sequence of its lines
    cell,      \* state of the OnceLock LIBC_SCALAR_TO_PRIMITIVE
    thr,       \* the callers of libc_scalar_pairs
    builds,    \* number of times the get_or_init closure was entered
    parser     \* what the syn parser does with the texts of the call

lockvars == << map_text, cell, thr, builds >>

vars ==
    << pc, text, once, twice, table, ty, traits, items, out, lockvars, parser >>

None == << >>
Some(x) == << x >>

\* the parser of a call that parses no text
NoParser == [source |-> "valid", fragment |-> "valid"]

(***************************************************************************)
(* Bounds of the model.                                                    *)
(***************************************************************************)
MaxTokens == 3
MaxDepth == 3
MaxPtrDepth == 3
MaxTable == 2
MaxItems == 3
MaxThreads == 2
MaxCalls == 2
MaxLineLen == 3
MaxLines == 2
MaxParams == 2
MaxSemis == 2
MaxSrcLines == 3
MaxSrcCols == 2
MaxStmts == 1
MaxNest == 2
MaxUnitItems == 2

(***************************************************************************)
(* String helpers (std::str).                                              *)
(***************************************************************************)
Space == " "

IsWhitespace(c) == c = Space

\* s[i..] starts with pat
StartsWithAt(s, i, pat) ==
    /\ i + Len(pat) - 1 <= Len(s)
    /\ SubSeq(s, i, i + Len(pat) - 1) = pat

\* str::contains
Contains(s, pat) == \E i \in 1..Len(s) : StartsWithAt(s, i, pat)

\* str::replace: every non-overlapping match, found left to right in the
\* original string, is replaced; the replacement is not rescanned.
RECURSIVE ReplaceFrom(_, _, _, _)
ReplaceFrom(s, i, pat, rep) ==
    IF i > Len(s) THEN << >>
    ELSE IF StartsWithAt(s, i, pat)
         THEN rep \o ReplaceFrom(s, i + Len(pat), pat, rep)
         ELSE << s[i] >> \o ReplaceFrom(s, i + 1, pat, rep)

Replace(s, pat, rep) == ReplaceFrom(s, 1, pat, rep)

\* str::trim
RECURSIVE TrimStart(_)
TrimStart(s) ==
    IF s # << >> /\ IsWhitespace(Head(s)) THEN TrimStart(Tail(s)) ELSE s

RECURSIVE TrimEnd(_)
TrimEnd(s) ==
    IF s # << >> /\ IsWhitespace(s[Len(s)])
    THEN TrimEnd(SubSeq(s, 1, Len(s) - 1))
    ELSE s

Trim(s) == TrimEnd(TrimStart(s))

\* str::split(sep) for a one-character separator: the sequence of pieces,
\* empty pieces included.
RECURSIVE SplitFrom(_, _, _, _)
SplitFrom(s, i, sep, cur) ==
    IF i > Len(s) THEN << cur >>
    ELSE IF s[i] = sep
         THEN << cur >> \o SplitFrom(s, i + 1, sep, << >>)
         ELSE SplitFrom(s, i + 1, sep, Append(cur, s[i]))

Split(s, sep) == SplitFrom(s, 1, sep, << >>)

\* str::split_whitespace: the non-empty maximal runs of non-whitespace.
SplitWhitespace(s) == SelectSeq(Split(s, Space), LAMBDA piece : piece # << >>)

\* [T]::join(sep)
RECURSIVE Join(_, _)
Join(pieces, sep) ==
    IF pieces = << >> THEN << >>
    ELSE IF Len(pieces) = 1 THEN pieces[1]
    ELSE pieces[1] \o sep \o Join(Tail(pieces), sep)

\* str::split("::").last()
RECURSIVE LastSegmentFrom(_, _, _)
LastSegmentFrom(s, i, cur) ==
    IF i > Len(s) THEN cur
    ELSE IF StartsWithAt(s, i, << ":", ":" >>)
         THEN LastSegmentFrom(s, i + 2, << >>)
         ELSE LastSegmentFrom(s, i + 1, Append(cur, s[i]))

LastSegment(s) == LastSegmentFrom(s, 1, << >>)

(***************************************************************************)
(* normalize_token_string                                                  *)
(***************************************************************************)
\* lines 460-470: the chain of replace calls, in source order
PunctuationRules ==
    << << << " ", ":", ":", " " >>, << ":", ":" >> >>,
       << << " ", ":", ":" >>, << ":", ":" >> >>,
       << << ":", ":", " " >>, << ":", ":" >> >>,
       << << " ", "<" >>, << "<" >> >>,
       << << "<", " " >>, << "<" >> >>,
       << << " ", ">" >>, << ">" >> >>,
       << << "*", " ", "m", "u", "t" >>, << "*", "m", "u", "t" >> >>,
       << << "*", " ", "c", "o", "n", "s", "t" >>,
          << "*", "c", "o", "n", "s", "t" >> >>,
       << << "&", " ", "m", "u", "t" >>, << "&", "m", "u", "t" >> >>,
       << << "&", " ", "'" >>, << "&", "'" >> >> >>

RECURSIVE ApplyRules(_, _, _)
ApplyRules(s, rules, k) ==
    IF k > Len(rules) THEN s
    ELSE ApplyRules(Replace(s, rules[k][1], rules[k][2]), rules, k + 1)

\* lines 472-479: the comma pass
TrimAll(pieces) == [k \in 1..Len(pieces) |-> Trim(pieces[k])]

normalize_commas(result) ==
    IF Contains(result, << "," >>)
    THEN Join(SelectSeq(TrimAll(Split(result, ",")),
                        LAMBDA segment : segment # << >>),
              << ",", Space >>)
    ELSE result

\* lines 449-470: the tokens joined by one space, then the replace chain
normalize_tokens(tokens) ==
    IF tokens = << >> THEN << >>
    ELSE normalize_commas(
             ApplyRules(Join(tokens, << Space >>), PunctuationRules, 1))

normalize_token_string(input) == normalize_tokens(SplitWhitespace(input))

(***************************************************************************)
(* Names used by the classifier, spelled as character sequences.           *)
(***************************************************************************)
S_String == << "S", "t", "r", "i", "n", "g" >>
S_str    == << "s", "t", "r" >>
S_Option == << "O", "p", "t", "i", "o", "n" >>
S_Box    == << "B", "o", "x" >>
S_u8     == << "u", "8" >>
S_i32    == << "i", "3", "2" >>
S_i64    == << "i", "6", "4" >>
S_libc   == << "l", "i", "b", "c" >>

\* line 28-30
NUMERIC_PRIMITIVES ==
    { << "u", "8" >>, << "i", "8" >>, << "u", "1", "6" >>, << "i", "1", "6" >>,
      << "u", "3", "2" >>, << "i", "3", "2" >>, << "u", "6", "4" >>,
      << "i", "6", "4" >>, << "u", "s", "i", "z", "e" >>,
      << "i", "s", "i", "z", "e" >>, << "f", "3", "2" >>, << "f", "6", "4" >> }

is_numeric_primitive(name) == name \in NUMERIC_PRIMITIVES

(***************************************************************************)
(* Scalar alias table lookup.                                              *)
(***************************************************************************)
\* mutant: the last matching entry wins
MapFromLast(pairs, k, name) ==
    IF { j \in k..Len(pairs) : pairs[j][1] = name
                               \/ LastSegment(pairs[j][1]) = name } = {}
    THEN None
    ELSE Some(pairs[CHOOSE j \in k..Len(pairs) :
                      /\ pairs[j][1] = name \/ LastSegment(pairs[j][1]) = name
                      /\ \A i \in (j + 1)..Len(pairs) :
                            pairs[i][1] # name
                            /\ LastSegment(pairs[i][1]) # name][2])

\* The first entry, in table order, whose alias equals name or whose last
\* "::" segment equals name.
RECURSIVE MapFrom(_, _, _)
MapFrom(pairs, k, name) ==
    IF k > Len(pairs) THEN None
    ELSE IF pairs[k][1] = name THEN Some(pairs[k][2])
    ELSE IF LastSegment(pairs[k][1]) = name THEN Some(pairs[k][2])
    ELSE MapFrom(pairs, k + 1, name)

\* str::split_once: the text before and after the first occurrence of c
FirstIndex(s, c) ==
    IF \E k \in 1..Len(s) : s[k] = c
    THEN CHOOSE k \in 1..Len(s) : s[k] = c /\ \A j \in 1..(k - 1) : s[j] # c
    ELSE 0

split_at(s, i) ==
    IF i = 0 THEN None
    ELSE Some(<< SubSeq(s, 1, i - 1), SubSeq(s, i + 1, Len(s)) >>)

split_once(s, c) == split_at(s, FirstIndex(s, c))

\* lines 496-500: both sides trimmed, and neither may be empty
checked_entry(src, dst) ==
    IF src = << >> \/ dst = << >> THEN None ELSE Some(<< src, dst >>)

\* lines 493-500: the entry of a line, or None where the closure panics
parse_line(parts) ==
    IF parts = None THEN None
    ELSE checked_entry(Trim(parts[1][1]), Trim(parts[1][2]))

\* line 490
is_skipped(line) == line = << >> \/ line[1] = "#"

\* lines 487-503: the closure given to get_or_init; a panic is reported with
\* the one-based number of the offending line
RECURSIVE BuildFrom(_, _, _)

build_entry(lines, idx, pairs, entry) ==
    IF entry = None
    THEN [panicked |-> TRUE, line |-> idx, pairs |-> << >>]
    ELSE BuildFrom(lines, idx + 1, Append(pairs, entry[1]))

build_step(lines, idx, pairs, line) ==
    IF is_skipped(line) THEN BuildFrom(lines, idx + 1, pairs)
    ELSE build_entry(lines, idx, pairs, parse_line(split_once(line, "=")))

BuildFrom(lines, idx, pairs) ==
    IF idx > Len(lines)
    THEN [panicked |-> FALSE, line |-> 0, pairs |-> pairs]
    ELSE build_step(lines, idx, pairs, Trim(lines[idx]))

build_pairs(lines) == BuildFrom(lines, 1, << >>)

\* the table held by the OnceLock, read after get_or_init has returned
libc_scalar_pairs == table

map_libc_scalar(name) == MapFrom(libc_scalar_pairs, 1, name)

\* a resource text whose build yields the given pairs
TextOf(pairs) ==
    [k \in 1..Len(pairs) |-> pairs[k][1] \o << "=" >> \o pairs[k][2]]

\* the state of the lock once the table has been built from its text
TableBuilt ==
    /\ map_text = TextOf(table)
    /\ cell = "Complete"
    /\ thr = << >>
    /\ builds = 1

(***************************************************************************)
(* syn::Type, as far as analyze_type looks at it.  Every node is a record  *)
(* of the same shape:                                                      *)
(*   kind     "Path" | "Reference" | "Slice" | "Ptr" | "Paren" | "Tuple"   *)
(*            | "Lifetime" (a generic argument that is not a type)         *)
(*   mut      Reference / Ptr: the mutability token is present             *)
(*   lifetime Reference: a lifetime is present                             *)
(*   qual     Path: the segments before the last one                       *)
(*   ident    Path: the identifier of the last segment                     *)
(*   args     Path: the angle-bracketed arguments of the last segment      *)
(*   elem     Reference / Slice / Ptr / Paren: the wrapped type            *)
(***************************************************************************)
Node(kind, mut, lifetime, qual, ident, args, elem) ==
    [kind |-> kind, mut |-> mut, lifetime |-> lifetime, qual |-> qual,
     ident |-> ident, args |-> args, elem |-> elem]

TPath(qual, ident, args) == Node("Path", FALSE, FALSE, qual, ident, args, None)
TRef(lifetime, mut, e)   == Node("Reference", mut, lifetime, << >>, << >>, << >>, Some(e))
TPtr(mut, e)             == Node("Ptr", mut, FALSE, << >>, << >>, << >>, Some(e))
TSlice(e)                == Node("Slice", FALSE, FALSE, << >>, << >>, << >>, Some(e))
TParen(e)                == Node("Paren", FALSE, FALSE, << >>, << >>, << >>, Some(e))
TUnit                    == Node("Tuple", FALSE, FALSE, << >>, << >>, << >>, None)
LifetimeArg              == Node("Lifetime", FALSE, FALSE, << >>, << >>, << >>, None)
\* [elem; len]: ident holds the tokens of the length expression
TArray(e, len)           == Node("Array", FALSE, FALSE, << >>, len, << >>, Some(e))

\* ty.to_token_stream().to_string(): the tokens of the type separated by one
\* space; "::" and "'a" are single tokens; a bracket or parenthesis group is
\* written without spaces inside its delimiters.
RECURSIVE Raw(_)
RECURSIVE RawArgs(_, _)
RawArgs(args, k) ==
    IF k > Len(args) THEN << >>
    ELSE (IF k = 1 THEN << >> ELSE << Space, ",", Space >>)
         \o Raw(args[k]) \o RawArgs(args, k + 1)

Raw(t) ==
    CASE t.kind = "Path" ->
            Join(Append(t.qual, t.ident), << Space, ":", ":", Space >>)
            \o (IF t.args = << >> THEN << >>
                ELSE << Space, "<", Space >> \o RawArgs(t.args, 1)
                     \o << Space, ">" >>)
      [] t.kind = "Lifetime" -> << "'", "a" >>
      [] t.kind = "Reference" ->
            << "&", Space >>
            \o (IF t.lifetime THEN << "'", "a", Space >> ELSE << >>)
            \o (IF t.mut THEN << "m", "u", "t", Space >> ELSE << >>)
            \o Raw(t.elem[1])
      [] t.kind = "Ptr" ->
            << "*", Space >>
            \o (IF t.mut THEN << "m", "u", "t", Space >>
                ELSE << "c", "o", "n", "s", "t", Space >>)
            \o Raw(t.elem[1])
      [] t.kind = "Slice" -> << "[" >> \o Raw(t.elem[1]) \o << "]" >>
      [] t.kind = "Paren" -> << "(" >> \o Raw(t.elem[1]) \o << ")" >>
      [] t.kind = "Array" ->
            << "[" >> \o Raw(t.elem[1]) \o << Space, ";", Space >>
            \o t.ident \o << "]" >>
      [] OTHER -> << "(", ")" >>

(***************************************************************************)
(* TypeTraits                                                              *)
(***************************************************************************)
\* TypeTraits::new
NewTraits(raw, normalized) ==
    [raw |-> raw,
     normalized |-> normalized,
     path_ident |-> None,
     is_reference |-> FALSE,
     is_mut_reference |-> FALSE,
     is_slice |-> FALSE,
     slice_elem |-> None,
     is_str |-> FALSE,
     is_string |-> FALSE,
     is_option |-> FALSE,
     option_inner |-> None,
     reference_inner |-> None,
     is_pointer |-> FALSE,
     pointer_is_mut |-> FALSE,
     pointer_depth |-> 0,
     pointer_inner |-> None,
     is_box |-> FALSE,
     box_inner |-> None,
     pointer_base_ident |-> None,
     pointer_base_normalized |-> None,
     pointer_base_raw |-> None,
     pointer_element |-> None,
     box_innermost |-> None]

\* push_unique
push_unique(vec, value) ==
    IF value # << >> /\ \A k \in 1..Len(vec) : vec[k] # value
    THEN Append(vec, value)
    ELSE vec

\* pointer_base: the first non-pointer node below a pointer node
RECURSIVE PointerBaseLoop(_)
PointerBaseLoop(current) ==
    IF ~current.is_pointer THEN Some(current)
    ELSE IF current.pointer_inner # None
         THEN PointerBaseLoop(current.pointer_inner[1])
         ELSE None

\* mutant: stops at the immediate pointee instead of descending to the base
pointer_base_shallow(t) ==
    IF ~t.is_pointer THEN None ELSE t.pointer_inner

pointer_base(t) ==
    IF ~t.is_pointer THEN None
    ELSE IF t.pointer_inner = None THEN None
    ELSE PointerBaseLoop(t.pointer_inner[1])

\* lines 569-576: each candidate's last "::" segment is appended when it
\* differs from the candidate
RECURSIVE ExpandCandidates(_, _, _)
ExpandCandidates(candidates, k, expanded) ==
    IF k > Len(candidates) THEN expanded
    ELSE LET tail == LastSegment(candidates[k])
         IN  ExpandCandidates(candidates, k + 1,
                 IF tail # candidates[k] THEN push_unique(expanded, tail)
                 ELSE expanded)

\* Iterator::find: the element of seq at the least index in hits
First(seq, hits) ==
    IF hits = {} THEN None
    ELSE Some(seq[CHOOSE k \in hits : \A j \in hits : k <= j])

\* lines 557-568: base path_ident, normalized, raw; push_unique skips an
\* empty value, which is the is_empty test of lines 562 and 566
pointer_candidates(ident, normalized, raw) ==
    push_unique(
        push_unique(IF ident # None THEN push_unique(<< >>, ident[1]) ELSE << >>,
                    normalized),
        raw)

\* mutant: a name the table does not know falls back to the default
pick_element_or_default(aliased, numeric, nonempty) ==
    IF aliased # None THEN map_libc_scalar(aliased[1])[1]
    ELSE S_u8

\* mutant: a primitive name is taken before the table is asked
pick_element_numeric_first(aliased, numeric, nonempty) ==
    IF numeric # None THEN numeric[1]
    ELSE IF aliased # None THEN map_libc_scalar(aliased[1])[1]
    ELSE IF nonempty # None THEN nonempty[1]
    ELSE S_u8

\* lines 578-618: the precedence among the expanded candidates
pick_element(aliased, numeric, nonempty) ==
    IF aliased # None THEN map_libc_scalar(aliased[1])[1]
    ELSE IF numeric # None THEN numeric[1]
    ELSE IF nonempty # None THEN nonempty[1]
    ELSE S_u8

resolve_element(expanded) ==
    pick_element(
        First(expanded, { k \in 1..Len(expanded) :
                              map_libc_scalar(expanded[k]) # None }),
        First(expanded, { k \in 1..Len(expanded) :
                              is_numeric_primitive(expanded[k]) }),
        First(expanded, { k \in 1..Len(expanded) : expanded[k] # << >> }))

expand_candidates(candidates) == ExpandCandidates(candidates, 1, candidates)

pointer_metadata_of(ident, normalized, raw) ==
    [base_ident |-> ident,
     base_normalized |-> IF normalized = << >> THEN None ELSE Some(normalized),
     base_raw |-> IF raw = << >> THEN None ELSE Some(raw),
     element |->
         resolve_element(
             expand_candidates(pointer_candidates(ident, normalized, raw)))]

pointer_metadata_of_base(found) ==
    IF found # None
    THEN pointer_metadata_of(found[1].path_ident,
                             normalize_token_string(found[1].normalized),
                             normalize_token_string(found[1].raw))
    ELSE [base_ident |-> None, base_normalized |-> None,
          base_raw |-> None, element |-> S_u8]

\* compute_pointer_metadata
compute_pointer_metadata(t) == pointer_metadata_of_base(pointer_base(t))

RECURSIVE compute_box_innermost(_)

\* mutant: a box reports its own payload without looking for a nested box
compute_box_innermost_shallow(t) ==
    IF t.is_box
    THEN IF t.box_inner # None
         THEN Some(normalize_token_string(t.box_inner[1].normalized))
         ELSE None
    ELSE IF t.is_option /\ t.option_inner # None
         THEN compute_box_innermost(t.option_inner[1])
    ELSE IF t.is_reference /\ t.reference_inner # None
         THEN compute_box_innermost(t.reference_inner[1])
    ELSE None

\* lines 643-653: the nested result, else the payload's normalized, else raw
box_payload_text(nested, normalized, raw) ==
    IF nested # None THEN nested
    ELSE IF normalized # << >> THEN Some(normalized)
    ELSE IF raw # << >> THEN Some(raw)
    ELSE None

\* mutant: a raw pointer is unwrapped like a reference
compute_box_innermost_through_pointer(t) ==
    IF t.is_box
    THEN IF t.box_inner # None
         THEN box_payload_text(
                  compute_box_innermost(t.box_inner[1]),
                  normalize_token_string(t.box_inner[1].normalized),
                  normalize_token_string(t.box_inner[1].raw))
         ELSE None
    ELSE IF t.is_option /\ t.option_inner # None
         THEN compute_box_innermost(t.option_inner[1])
    ELSE IF t.is_reference /\ t.reference_inner # None
         THEN compute_box_innermost(t.reference_inner[1])
    ELSE IF t.is_pointer /\ t.pointer_inner # None
         THEN compute_box_innermost(t.pointer_inner[1])
    ELSE None

\* compute_box_innermost
compute_box_innermost(t) ==
    IF t.is_box
    THEN IF t.box_inner # None
         THEN box_payload_text(
                  compute_box_innermost(t.box_inner[1]),
                  normalize_token_string(t.box_inner[1].normalized),
                  normalize_token_string(t.box_inner[1].raw))
         ELSE None
    ELSE IF t.is_option /\ t.option_inner # None
         THEN compute_box_innermost(t.option_inner[1])
    ELSE IF t.is_reference /\ t.reference_inner # None
         THEN compute_box_innermost(t.reference_inner[1])
    ELSE None

\* lines 776-779
set_pointer_metadata(t, meta) ==
    [t EXCEPT !.pointer_base_ident = meta.base_ident,
              !.pointer_base_normalized = meta.base_normalized,
              !.pointer_base_raw = meta.base_raw,
              !.pointer_element = Some(meta.element)]

\* mutant: the metadata is computed without the is_pointer test
with_pointer_metadata_always(t) ==
    set_pointer_metadata(t, compute_pointer_metadata(t))

\* lines 774-785
with_pointer_metadata(t) ==
    IF t.is_pointer
    THEN set_pointer_metadata(t, compute_pointer_metadata(t))
    ELSE [t EXCEPT !.pointer_base_ident = None,
                   !.pointer_base_normalized = None,
                   !.pointer_base_raw = None,
                   !.pointer_element = None]

\* line 786
with_box_innermost(t) ==
    [t EXCEPT !.box_innermost = compute_box_innermost(t)]

\* TypeTraits::finalize_metadata
finalize_metadata(t) == with_box_innermost(with_pointer_metadata(t))

(***************************************************************************)
(* analyze_type                                                            *)
(***************************************************************************)
RECURSIVE analyze_type(_)
RECURSIVE analyze_argument(_)

\* mutant: the String tag is not copied
copy_str_only(t, inner) == [t EXCEPT !.is_str = @ \/ inner.is_str]

\* "if inner.is_str { traits.is_str = true } if inner.is_string { ... }"
copy_str_string(t, inner) ==
    [t EXCEPT !.is_str = @ \/ inner.is_str,
              !.is_string = @ \/ inner.is_string]

\* "if inner.is_slice { traits.is_slice = true; traits.slice_elem = ... }"
copy_slice(t, inner) ==
    IF inner.is_slice
    THEN [t EXCEPT !.is_slice = TRUE, !.slice_elem = inner.slice_elem]
    ELSE t

\* "if traits.slice_elem.is_none() && inner.is_slice { ... }"
copy_slice_if_unset(t, inner) ==
    IF t.slice_elem = None /\ inner.is_slice
    THEN [t EXCEPT !.is_slice = TRUE, !.slice_elem = inner.slice_elem]
    ELSE t

\* the first GenericArgument::Type of the angle-bracketed arguments
first_type_argument(args) ==
    First(args, { k \in 1..Len(args) : args[k].kind # "Lifetime" })

\* syn::Type::Reference; inner is analyze_type(&reference.elem)
reference_case(fresh, node, inner) ==
    LET flagged == [fresh EXCEPT !.is_reference = TRUE,
                                 !.is_mut_reference = node.mut]
        copied == copy_str_string(copy_slice(flagged, inner), inner)
    IN  [copied EXCEPT !.reference_inner = Some(inner)]

\* mutant: records the rendering of the whole slice type
slice_case_whole(fresh, node) ==
    [fresh EXCEPT !.is_slice = TRUE, !.slice_elem = Some(Raw(node))]

\* syn::Type::Slice
slice_case(fresh, node) ==
    [fresh EXCEPT !.is_slice = TRUE, !.slice_elem = Some(Raw(node.elem[1]))]

\* ident "Option"; arg is the analysed first type argument, if there is one
option_case(named, arg) ==
    LET flagged == [named EXCEPT !.is_option = TRUE]
    IN  IF arg = None THEN flagged
        ELSE LET inner == arg[1]
                 copied == copy_str_string(copy_slice(flagged, inner), inner)
                 boxed == IF inner.is_box /\ ~copied.is_box
                          THEN [copied EXCEPT !.is_box = TRUE,
                                              !.box_inner = inner.box_inner]
                          ELSE copied
             IN  [boxed EXCEPT !.option_inner = Some(inner)]

\* mutant: the payload's slice / str / String tags are not copied
box_case_no_tags(named, arg) ==
    LET flagged == [named EXCEPT !.is_box = TRUE]
    IN  IF arg = None THEN flagged
        ELSE [flagged EXCEPT !.box_inner = arg]

\* ident "Box"; arg is the analysed first type argument, if there is one
box_case(named, arg) ==
    LET flagged == [named EXCEPT !.is_box = TRUE]
    IN  IF arg = None THEN flagged
        ELSE LET inner == arg[1]
                 copied == copy_str_string(copy_slice(flagged, inner), inner)
             IN  [copied EXCEPT !.box_inner = Some(inner)]

\* syn::Type::Path; arg is the analysed first type argument of the last
\* segment, if there is one
path_case(fresh, node, arg) ==
    LET named == [fresh EXCEPT !.path_ident = Some(node.ident)]
    IN  CASE node.ident = S_String -> [named EXCEPT !.is_string = TRUE]
          [] node.ident = S_str -> [named EXCEPT !.is_str = TRUE]
          [] node.ident = S_Option -> option_case(named, arg)
          [] node.ident = S_Box -> box_case(named, arg)
          [] OTHER -> named

\* mutant: the depth does not count the layers below
ptr_case_flat(fresh, node, inner) ==
    LET flagged == [fresh EXCEPT !.is_pointer = TRUE,
                                 !.pointer_is_mut = node.mut,
                                 !.pointer_depth = 1]
        copied == copy_str_string(copy_slice_if_unset(flagged, inner), inner)
    IN  [copied EXCEPT !.pointer_inner = Some(inner)]

\* syn::Type::Ptr; inner is analyze_type(&ptr.elem)
ptr_case(fresh, node, inner) ==
    LET flagged == [fresh EXCEPT !.is_pointer = TRUE,
                                 !.pointer_is_mut = node.mut,
                                 !.pointer_depth = inner.pointer_depth + 1]
        copied == copy_str_string(copy_slice_if_unset(flagged, inner), inner)
    IN  [copied EXCEPT !.pointer_inner = Some(inner)]

\* lines 916-930
propagate_reference(t) ==
    IF t.is_reference /\ t.reference_inner # None
    THEN copy_str_string(copy_slice_if_unset(t, t.reference_inner[1]),
                         t.reference_inner[1])
    ELSE t

\* lines 932-945
propagate_option(t) ==
    IF t.is_option /\ t.option_inner # None
    THEN copy_str_string(copy_slice_if_unset(t, t.option_inner[1]),
                         t.option_inner[1])
    ELSE t

\* lines 808-914: the match on the node's shape; fresh is TypeTraits::new
shape_case(node, fresh) ==
    CASE node.kind = "Reference" ->
            reference_case(fresh, node, analyze_type(node.elem[1]))
      [] node.kind = "Slice" -> slice_case(fresh, node)
      [] node.kind = "Path" ->
            path_case(fresh, node, analyze_argument(first_type_argument(node.args)))
      [] node.kind = "Ptr" -> ptr_case(fresh, node, analyze_type(node.elem[1]))
      [] OTHER -> fresh

\* lines 842, 868
analyze_argument(arg) ==
    IF arg = None THEN None ELSE Some(analyze_type(arg[1]))

\* mutant: a parenthesized type is classified as a node of its own
analyze_rendered_paren_opaque(node, raw, normalized) ==
    finalize_metadata(
        propagate_option(
            propagate_reference(
                shape_case(node, NewTraits(raw, normalized)))))

\* lines 794-950, with raw and normalized of lines 791-793
analyze_rendered(node, raw, normalized) ==
    IF node.kind = "Paren"
    THEN [analyze_type(node.elem[1]) EXCEPT !.raw = raw,
                                            !.normalized = normalized]
    ELSE finalize_metadata(
             propagate_option(
                 propagate_reference(
                     shape_case(node, NewTraits(raw, normalized)))))

render_and_analyze(node, raw) ==
    analyze_rendered(node, raw, normalize_token_string(raw))

analyze_type(node) == render_and_analyze(node, Raw(node))

(***************************************************************************)
(* normalize_stdint_aliases.  Identifiers are compared, never taken apart, *)
(* so they are plain strings here.                                         *)
(*                                                                         *)
(* syn::UseTree is a record [kind, ident, rename, sub]:                    *)
(*   "Path"   ident :: sub[1]        "Group"  { sub[1], ..., sub[n] }      *)
(*   "Name"   ident                  "Rename" ident as rename              *)
(*   "Glob"   *                                                            *)
(* syn::Item is a record [kind, tree, ident, rhs, paths]:                  *)
(*   "Use"    use tree[1];                                                 *)
(*   "Type"   type ident = rhs;  rhs = [segments, arguments]               *)
(*   "Other"  any other item                                               *)
(*   paths    the syn::Path nodes inside the item, each the sequence of    *)
(*            its segment identifiers                                      *)
(***************************************************************************)
UseTree(kind, ident, rename, sub) ==
    [kind |-> kind, ident |-> ident, rename |-> rename, sub |-> sub]

UsePath(ident, tree)    == UseTree("Path", ident, "", << tree >>)
UseGroup(trees)         == UseTree("Group", "", "", trees)
UseName(ident)          == UseTree("Name", ident, "", << >>)
UseRename(ident, alias) == UseTree("Rename", ident, alias, << >>)
UseGlob                 == UseTree("Glob", "", "", << >>)

\* syn::Path: leading_colon is Some, the idents of the segments, and whether
\* a segment carries arguments
NoPath == [leading_colon |-> FALSE, segments |-> << >>, arguments |-> FALSE]

BarePath(segments) ==
    [leading_colon |-> FALSE, segments |-> segments, arguments |-> FALSE]
GlobalPath(segments) ==
    [leading_colon |-> TRUE, segments |-> segments, arguments |-> FALSE]

ItemUse(tree) ==
    [kind |-> "Use", tree |-> Some(tree), ident |-> "", rhs |-> NoPath,
     paths |-> {}]
ItemType(ident, segments, arguments) ==
    [kind |-> "Type", tree |-> None, ident |-> ident,
     rhs |-> [leading_colon |-> FALSE, segments |-> segments,
              arguments |-> arguments],
     paths |-> { [leading_colon |-> FALSE, segments |-> segments,
                  arguments |-> arguments] }]
\* type ident = ::segments;
ItemTypeGlobal(ident, segments) ==
    [kind |-> "Type", tree |-> None, ident |-> ident,
     rhs |-> GlobalPath(segments), paths |-> { GlobalPath(segments) }]
\* any other item, with the paths that occur in it
ItemOther(paths) ==
    [kind |-> "Other", tree |-> None, ident |-> "", rhs |-> NoPath,
     paths |-> { BarePath(p) : p \in paths }]
ItemOtherGlobal(segments) ==
    [kind |-> "Other", tree |-> None, ident |-> "", rhs |-> NoPath,
     paths |-> { GlobalPath(segments) }]

\* lines 1746-1755
STDINT_ALIAS_TARGETS ==
    << << "int8_t", "i8" >>, << "int16_t", "i16" >>, << "int32_t", "i32" >>,
       << "int64_t", "i64" >>, << "uint8_t", "u8" >>, << "uint16_t", "u16" >>,
       << "uint32_t", "u32" >>, << "uint64_t", "u64" >> >>

expected_stdint_target(name) ==
    First([k \in 1..Len(STDINT_ALIAS_TARGETS) |-> STDINT_ALIAS_TARGETS[k][2]],
          { k \in 1..Len(STDINT_ALIAS_TARGETS) :
                STDINT_ALIAS_TARGETS[k][1] = name })

\* the iteration order of BTreeSet<String> over the stdint names
BTreeOrder ==
    << "int16_t", "int32_t", "int64_t", "int8_t",
       "uint16_t", "uint32_t", "uint64_t", "uint8_t" >>

\* BTreeSet::iter().cloned().collect()
InOrder(names) == SelectSeq(BTreeOrder, LAMBDA n : n \in names)

should_strip_stdint_alias(item) ==
    LET expected == expected_stdint_target(item.ident)
    IN  IF expected = None THEN None
        ELSE IF /\ Len(item.rhs.segments) = 1
                /\ item.rhs.segments[1] = expected[1]
                /\ ~item.rhs.arguments
             THEN Some(item.ident)
             ELSE None

IsStripped(item) ==
    item.kind = "Type" /\ should_strip_stdint_alias(item) # None

\* StdintUsageCollector::visit_path over every path of the items
collect_stdint_names(list) ==
    { p.segments[1] :
        p \in { q \in UNION { list[k].paths : k \in 1..Len(list) } :
                   /\ ~q.leading_colon
                   /\ Len(q.segments) = 1
                   /\ expected_stdint_target(q.segments[1]) # None } }

\* collect_libc_names: [names, has_glob] accumulated over one use tree; the
\* walk of a group stops at the first glob
RECURSIVE collect_libc_names(_, _, _)
RECURSIVE CollectGroup(_, _, _, _)
CollectGroup(trees, k, in_libc, acc) ==
    IF k > Len(trees) \/ acc.has_glob THEN acc
    ELSE CollectGroup(trees, k + 1, in_libc,
                      collect_libc_names(trees[k], in_libc, acc))

collect_libc_names(tree, in_libc, acc) ==
    CASE tree.kind = "Path" ->
            collect_libc_names(tree.sub[1], in_libc \/ tree.ident = "libc", acc)
      [] tree.kind = "Group" -> CollectGroup(tree.sub, 1, in_libc, acc)
      [] tree.kind = "Name" ->
            IF in_libc THEN [acc EXCEPT !.names = @ \cup { tree.ident }] ELSE acc
      [] tree.kind = "Rename" ->
            IF in_libc THEN [acc EXCEPT !.names = @ \cup { tree.ident }] ELSE acc
      [] OTHER -> IF in_libc THEN [acc EXCEPT !.has_glob = TRUE] ELSE acc

NamesToTrees(names) == [k \in 1..Len(names) |-> UseName(names[k])]

\* ensure_aliases_in_libc_group: [tree, needed] after the call
ensure_aliases_in_libc_group(group, needed) ==
    LET found == CollectGroup(group.sub, 1, TRUE,
                              [names |-> {}, has_glob |-> FALSE])
        additions == InOrder(needed \ found.names)
    IN  IF found.has_glob THEN [tree |-> group, needed |-> {}]
        ELSE IF additions = << >> THEN [tree |-> group, needed |-> needed]
        ELSE [tree |-> [group EXCEPT !.sub = @ \o NamesToTrees(additions)],
              needed |-> needed \cap found.names]

\* ensure_aliases_in_use_tree: [tree, needed] after the call
RECURSIVE ensure_aliases_in_use_tree(_, _, _)
RECURSIVE EnsureGroupItems(_, _, _)
EnsureGroupItems(trees, k, needed) ==
    IF k > Len(trees) THEN [trees |-> trees, needed |-> needed]
    ELSE LET r == ensure_aliases_in_use_tree(trees[k], needed, FALSE)
             updated == [trees EXCEPT ![k] = r.tree]
         IN  IF r.needed = {} THEN [trees |-> updated, needed |-> {}]
             ELSE EnsureGroupItems(updated, k + 1, r.needed)

ensure_aliases_in_use_tree(tree, needed, in_libc) ==
    CASE tree.kind = "Path" ->
            LET r == ensure_aliases_in_use_tree(
                         tree.sub[1], needed, in_libc \/ tree.ident = "libc")
            IN  [tree |-> [tree EXCEPT !.sub = << r.tree >>],
                 needed |-> r.needed]
      [] tree.kind = "Group" ->
            IF in_libc THEN ensure_aliases_in_libc_group(tree, needed)
            ELSE LET r == EnsureGroupItems(tree.sub, 1, needed)
                 IN  [tree |-> [tree EXCEPT !.sub = r.trees],
                      needed |-> r.needed]
      [] tree.kind = "Name" ->
            IF ~in_libc THEN [tree |-> tree, needed |-> needed]
            ELSE LET rest == needed \ { tree.ident }
                 IN  IF rest = {} THEN [tree |-> tree, needed |-> {}]
                     ELSE [tree |-> UseGroup(<< UseName(tree.ident) >>
                                             \o NamesToTrees(InOrder(rest))),
                           needed |-> {}]
      [] tree.kind = "Rename" ->
            [tree |-> tree,
             needed |-> IF in_libc THEN needed \ { tree.ident } ELSE needed]
      [] OTHER ->
            [tree |-> tree, needed |-> IF in_libc THEN {} ELSE needed]

\* lines 1821-1828: the walk over the use declarations, stopping as soon as
\* nothing is needed any more
RECURSIVE EnsureItems(_, _, _)
EnsureItems(list, k, needed) ==
    IF k > Len(list) THEN [items |-> list, needed |-> needed]
    ELSE IF list[k].kind = "Use"
         THEN LET r == ensure_aliases_in_use_tree(list[k].tree[1], needed, FALSE)
                  updated == [list EXCEPT ![k].tree = Some(r.tree)]
              IN  IF r.needed = {} THEN [items |-> updated, needed |-> {}]
                  ELSE EnsureItems(updated, k + 1, r.needed)
         ELSE EnsureItems(list, k + 1, needed)

\* Vec::insert(index, element), index counted from 0
InsertAt(list, index, element) ==
    SubSeq(list, 1, index) \o << element >> \o SubSeq(list, index + 1, Len(list))

ensure_libc_imports(list, aliases) ==
    IF aliases = << >> THEN list
    ELSE LET walked == EnsureItems(list, 1, { aliases[k] : k \in 1..Len(aliases) })
             new_use == ItemUse(UsePath("libc",
                            UseGroup(NamesToTrees(InOrder(walked.needed)))))
             uses == { k \in 1..Len(walked.items) : walked.items[k].kind = "Use" }
             insertion_index ==
                 IF uses = {} THEN 0
                 ELSE CHOOSE k \in uses : \A j \in uses : j <= k
         IN  IF walked.needed = {} THEN walked.items
             ELSE InsertAt(walked.items, insertion_index, new_use)

normalize_stdint_aliases(list) ==
    LET new_items == SelectSeq(list, LAMBDA item : ~IsStripped(item))
        removed_aliases ==
            { list[k].ident : k \in { j \in 1..Len(list) : IsStripped(list[j]) } }
        needed == removed_aliases \cup collect_stdint_names(new_items)
    IN  IF needed = {} THEN new_items
        ELSE ensure_libc_imports(new_items, InOrder(needed))

(***************************************************************************)
(* Inputs of normalize_token_string: up to MaxTokens tokens, each preceded *)
(* by zero, one or two spaces.                                             *)
(***************************************************************************)
Tokens ==
    { << ":" >>, << ":", ":" >>, << "<" >>, << ">" >>, << "," >>, << "*" >>,
      << "&" >>, << "'" >>, << "a" >>, << "m", "u", "t" >>,
      << "c", "o", "n", "s", "t" >> }

Gaps == { << >>, << Space >>, << Space, Space >> }

RECURSIVE Texts(_)
Texts(n) ==
    IF n = 0 THEN { << >> }
    ELSE Texts(n - 1) \cup
         { t \o g \o tok : t \in Texts(n - 1), g \in Gaps, tok \in Tokens }

InitTokens ==
    /\ pc = "tokens"
    /\ text \in Texts(MaxTokens)
    /\ once = None
    /\ twice = None
    /\ table = << >>
    /\ ty = None
    /\ traits = None
    /\ items = << >>
    /\ out = None
    /\ parser = NoParser
    /\ TableBuilt

\* One call of normalize_token_string on the input, and one on its result.
NormalizeTokenString ==
    /\ pc = "tokens"
    /\ once' = Some(normalize_token_string(text))
    /\ twice' = Some(normalize_token_string(normalize_token_string(text)))
    /\ pc' = "tokens_done"
    /\ UNCHANGED << text, table, ty, traits, items, out, lockvars, parser >>

NextTokens == NormalizeTokenString

SpecTokens == InitTokens /\ [][NextTokens]_vars

\* C2: normalize_token_string is idempotent: normalising the result of a
\* normalisation gives that same result, for every input string.
C2_Idempotent ==
    pc = "tokens_done" => twice = once

\* the text has a space directly before or directly after an occurrence
\* of pat
SpaceAround(s, pat) ==
    \E i \in 1..Len(s) :
        /\ StartsWithAt(s, i, pat)
        /\ \/ i > 1 /\ s[i - 1] = Space
           \/ i + Len(pat) <= Len(s) /\ s[i + Len(pat)] = Space

\* C26: the result of normalize_token_string has no space directly before
\* or after a path separator "::", and none directly before or after "<"
\* or ">".
C26_NoSpaceAroundPunctuation ==
    pc = "tokens_done" =>
        /\ ~SpaceAround(once[1], << ":", ":" >>)
        /\ ~SpaceAround(once[1], << "<" >>)
        /\ ~SpaceAround(once[1], << ">" >>)

(***************************************************************************)
(* Inputs of parse_type_traits: the types of nesting depth at most         *)
(* MaxDepth over a few leaf types, and a few alias tables.                 *)
(***************************************************************************)
S_A == << "A" >>
S_T == << "T" >>
S_m == << "m" >>
S_n == << "n" >>

LeafTypes ==
    { TPath(<< >>, S_A, << >>),
      TPath(<< S_m >>, S_A, << >>),
      TPath(<< >>, S_T, << >>),
      TPath(<< >>, S_i32, << >>),
      TPath(<< >>, S_str, << >>),
      TPath(<< >>, S_String, << >>),
      TPath(<< >>, S_Option, << >>),
      TPath(<< >>, S_Box, << >>),
      TUnit }

Wrap(e) ==
    { TRef(FALSE, FALSE, e), TRef(TRUE, TRUE, e),
      TPtr(TRUE, e), TPtr(FALSE, e),
      TSlice(e), TParen(e),
      TPath(<< >>, S_Option, << e >>),
      TPath(<< >>, S_Box, << e >>) }

RECURSIVE TypesOfDepth(_)
TypesOfDepth(d) ==
    IF d = 0 THEN LeafTypes
    ELSE TypesOfDepth(d - 1) \cup UNION { Wrap(e) : e \in TypesOfDepth(d - 1) }

TypeTables ==
    { << << S_m \o << ":", ":" >> \o S_A, S_i32 >>, << S_T, S_i64 >> >> }

InitTypes ==
    /\ pc = "type"
    /\ ty \in { Some(t) : t \in TypesOfDepth(MaxDepth) }
    /\ table \in TypeTables
    /\ traits = None
    /\ text = << >>
    /\ once = None
    /\ twice = None
    /\ items = << >>
    /\ out = None
    /\ parser = NoParser
    /\ TableBuilt

\* parse_type_traits, after the parse: analyze_type on the parsed type
ParseTypeTraits ==
    /\ pc = "type"
    /\ traits' = Some(analyze_type(ty[1]))
    /\ pc' = "type_done"
    /\ UNCHANGED << text, once, twice, table, ty, items, out, lockvars, parser >>

NextTypes == ParseTypeTraits

SpecTypes == InitTypes /\ [][NextTypes]_vars

\* every node of a TypeTraits tree
RECURSIVE NodesOf(_)
NodesOf(t) ==
    { t }
    \cup (IF t.reference_inner = None THEN {} ELSE NodesOf(t.reference_inner[1]))
    \cup (IF t.option_inner = None THEN {} ELSE NodesOf(t.option_inner[1]))
    \cup (IF t.pointer_inner = None THEN {} ELSE NodesOf(t.pointer_inner[1]))
    \cup (IF t.box_inner = None THEN {} ELSE NodesOf(t.box_inner[1]))

Classified == pc = "type_done"

ResultNodes == IF traits = None THEN {} ELSE NodesOf(traits[1])

(***************************************************************************)
(* Inputs for the pointer base resolver: chains of 1..MaxPtrDepth raw      *)
(* pointers (every mix of *mut and *const) to a named type, bare or        *)
(* path-qualified, under every alias table of at most MaxTable entries.    *)
(***************************************************************************)
S_B == << "B" >>

QualifiedName(qual, ident) == Join(Append(qual, ident), << ":", ":" >>)

BaseTypes ==
    { TPath(q, i, << >>) :
        q \in { << >>, << S_m >>, << S_n >>, << S_m, S_n >> },
        i \in { S_A, S_B, S_i32 } }
    \cup { TUnit, TRef(FALSE, FALSE, TPath(<< >>, S_i32, << >>)) }

RECURSIVE PointerChains(_)
PointerChains(n) ==
    IF n = 0 THEN BaseTypes
    ELSE { TPtr(mut, e) : mut \in BOOLEAN, e \in PointerChains(n - 1) }

TableEntries ==
    { << S_A, S_i64 >>,
      << QualifiedName(<< S_m >>, S_A), S_i32 >>,
      << QualifiedName(<< S_n >>, S_A), S_u8 >>,
      << QualifiedName(<< S_libc >>, S_B), S_i32 >>,
      << QualifiedName(<< S_m >>, S_i32), S_i64 >> }

RECURSIVE TablesUpTo(_)
TablesUpTo(n) ==
    IF n = 0 THEN { << >> }
    ELSE TablesUpTo(n - 1) \cup
         { Append(t, e) : t \in TablesUpTo(n - 1), e \in TableEntries }

InitPointers ==
    /\ pc = "type"
    /\ ty \in { Some(t) : t \in UNION { PointerChains(n) : n \in 1..MaxPtrDepth } }
    /\ table \in TablesUpTo(MaxTable)
    /\ traits = None
    /\ text = << >>
    /\ once = None
    /\ twice = None
    /\ items = << >>
    /\ out = None
    /\ parser = NoParser
    /\ TableBuilt

SpecPointers == InitPointers /\ [][NextTypes]_vars

\* the number of raw-pointer layers of a parsed type, and the type below them
RECURSIVE PtrLayers(_)
PtrLayers(t) == IF t.kind = "Ptr" THEN 1 + PtrLayers(t.elem[1]) ELSE 0

RECURSIVE PtrTarget(_)
PtrTarget(t) == IF t.kind = "Ptr" THEN PtrTarget(t.elem[1]) ELSE t

\* C3: an n-level raw pointer (any mix of *mut and *const) to a name whose
\* table lookup yields P is classified as a pointer of depth n with
\* pointer_element P, whether the name is written bare or path-qualified.
C3_PointerToAlias ==
    Classified =>
        LET target == PtrTarget(ty[1])
            mapped == map_libc_scalar(target.ident)
        IN  (PtrLayers(ty[1]) >= 1 /\ target.kind = "Path"
                /\ target.args = << >> /\ mapped # None) =>
                /\ traits[1].is_pointer
                /\ traits[1].pointer_depth = PtrLayers(ty[1])
                /\ traits[1].pointer_element = mapped

\* a pointer of the full depth to a qualified name that only the table's
\* last-segment match resolves
C3_Witness ==
    /\ Classified
    /\ PtrLayers(ty[1]) = MaxPtrDepth
    /\ PtrTarget(ty[1]).qual = << S_n >>
    /\ table = << << QualifiedName(<< S_m >>, S_A), S_i32 >> >>
    /\ traits[1].pointer_depth = MaxPtrDepth
    /\ traits[1].pointer_element = Some(S_i32)

\* the consecutive raw-pointer layers from a node down, following pointer_inner
RECURSIVE PointerLayersBelow(_)
PointerLayersBelow(n) ==
    IF n.is_pointer /\ n.pointer_inner # None
    THEN 1 + PointerLayersBelow(n.pointer_inner[1])
    ELSE 0

\* C4: at every node, pointer_depth is the number of consecutive raw-pointer
\* layers from that node down to the first non-pointer node, and a node that
\* is not a pointer has pointer_depth 0.
C4_PointerDepth ==
    \A n \in ResultNodes :
        /\ n.pointer_depth = PointerLayersBelow(n)
        /\ ~n.is_pointer => n.pointer_depth = 0

\* a two-level pointer to a reference: depths 2, 1 and 0 in one tree
C4_Witness ==
    /\ Classified
    /\ \E n \in ResultNodes :
          /\ n.pointer_depth = 2
          /\ n.pointer_inner[1].pointer_inner[1].is_reference

\* C5: at every node each structural flag and its companion field agree,
\* also for wrapper names written without a type argument.
C5_FlagsMatchCompanions ==
    \A n \in ResultNodes :
        /\ (n.reference_inner # None) <=> n.is_reference
        /\ (n.option_inner # None) <=> n.is_option
        /\ (n.pointer_inner # None) <=> n.is_pointer
        /\ (n.box_inner # None) <=> n.is_box
        /\ (n.slice_elem # None) <=> n.is_slice

IsBoxNode(n) == n.is_box /\ n.path_ident = Some(S_Box)
IsOptionNode(n) == n.is_option /\ n.path_ident = Some(S_Option)

\* the node was produced for a syn::Type::Slice
IsSliceNode(n) ==
    /\ n.is_slice
    /\ n.path_ident = None
    /\ ~n.is_reference /\ ~n.is_pointer

Untagged(n) == ~n.is_slice /\ ~n.is_str /\ ~n.is_string

SameTags(n, inner) ==
    /\ n.is_slice = inner.is_slice
    /\ n.is_str = inner.is_str
    /\ n.is_string = inner.is_string
    /\ n.slice_elem = inner.slice_elem

\* C6 as stated: slice / str / String detection does not propagate through an
\* owning box or a raw pointer, so a Box node and a raw-pointer node carry
\* none of is_slice, is_str, is_string.
C6_NoPropagation ==
    \A n \in ResultNodes : (IsBoxNode(n) \/ n.is_pointer) => Untagged(n)

\* C6 amended: detection does propagate through an owning box and a raw
\* pointer: a Box node or raw-pointer node carries is_slice, is_str and
\* is_string (and slice_elem) exactly as its payload / pointee node does, and
\* a Box without a type argument carries none.
C6_PropagatesThroughBoxAndPointer ==
    \A n \in ResultNodes :
        /\ (IsBoxNode(n) /\ n.box_inner # None) => SameTags(n, n.box_inner[1])
        /\ (IsBoxNode(n) /\ n.box_inner = None) => Untagged(n)
        /\ n.is_pointer => SameTags(n, n.pointer_inner[1])

\* Box<*const [T]>: the slice tag travels through the pointer and the box
C6_Witness ==
    /\ Classified
    /\ IsBoxNode(traits[1])
    /\ traits[1].is_slice
    /\ traits[1].box_inner[1].is_pointer
    /\ traits[1].box_inner[1].is_slice
    /\ IsSliceNode(traits[1].box_inner[1].pointer_inner[1])

\* C7 as stated: a reference or option node is tagged iff its immediate
\* referent / payload is itself a slice node, a `str` path or a `String` path.
C7_ExactlyOneLevel ==
    \A n \in ResultNodes :
        LET Holds(inner) ==
                /\ n.is_slice <=> IsSliceNode(inner)
                /\ n.is_str <=> (inner.path_ident = Some(S_str))
                /\ n.is_string <=> (inner.path_ident = Some(S_String))
        IN  /\ (n.is_reference /\ n.reference_inner # None) =>
                    Holds(n.reference_inner[1])
            /\ (IsOptionNode(n) /\ n.option_inner # None) =>
                    Holds(n.option_inner[1])

\* C7 amended: a reference or option node is tagged iff its immediate
\* referent / payload node is tagged, so the tags travel up through any
\* number of reference / option levels.
C7_PropagatesEveryLevel ==
    \A n \in ResultNodes :
        /\ n.is_reference => SameTags(n, n.reference_inner[1])
        /\ (IsOptionNode(n) /\ n.option_inner # None) =>
                SameTags(n, n.option_inner[1])
        /\ (IsOptionNode(n) /\ n.option_inner = None) => Untagged(n)

\* an option of a reference to str, tagged two levels above the str
C7_Witness ==
    /\ Classified
    /\ IsOptionNode(traits[1])
    /\ traits[1].is_str
    /\ traits[1].option_inner[1].is_reference
    /\ traits[1].option_inner[1].reference_inner[1].path_ident = Some(S_str)

\* C8: for a reference (shared or mutable, with or without lifetime) to a
\* slice of E, the outer node is a reference and a slice, and its slice_elem
\* is the token rendering of E that the inner slice node records.
C8_ReferenceToSlice ==
    Classified =>
        LET t == ty[1]
        IN  (t.kind = "Reference" /\ t.elem[1].kind = "Slice") =>
                /\ traits[1].is_reference
                /\ traits[1].is_slice
                /\ traits[1].slice_elem = Some(Raw(t.elem[1].elem[1]))
                /\ traits[1].slice_elem = traits[1].reference_inner[1].slice_elem

\* &'a mut [Option<T>]-like input: a mutable reference with a lifetime to a
\* slice whose element is itself a wrapper
C8_Witness ==
    /\ Classified
    /\ ty[1].kind = "Reference" /\ ty[1].mut /\ ty[1].lifetime
    /\ ty[1].elem[1].kind = "Slice"
    /\ ty[1].elem[1].elem[1].kind = "Path"
    /\ ty[1].elem[1].elem[1].args # << >>
    /\ traits[1].is_slice

IsPlainNamed(t) ==
    t.kind = "Path" /\ t.ident \notin { S_Option, S_Box } /\ t.args = << >>

IsBoxOf(t) == t.kind = "Path" /\ t.ident = S_Box /\ Len(t.args) = 1

\* C9: for Option<Box<T>>, &Box<T> and Box<Box<T>> with T a plain named type,
\* box_innermost at the outer node is T's normalized rendering.
C9_BoxInnermost ==
    Classified =>
        LET t == ty[1]
            Expect(T) ==
                IsPlainNamed(T) =>
                    traits[1].box_innermost = Some(normalize_token_string(Raw(T)))
        IN  /\ (t.kind = "Path" /\ t.ident = S_Option /\ Len(t.args) = 1
                  /\ IsBoxOf(t.args[1])) => Expect(t.args[1].args[1])
            /\ (t.kind = "Reference" /\ IsBoxOf(t.elem[1])) =>
                  Expect(t.elem[1].args[1])
            /\ (IsBoxOf(t) /\ IsBoxOf(t.args[1])) => Expect(t.args[1].args[1])

\* Box<Box<m::A>>: nested boxes around a path-qualified name
C9_Witness ==
    /\ Classified
    /\ IsBoxOf(ty[1]) /\ IsBoxOf(ty[1].args[1])
    /\ ty[1].args[1].args[1] = TPath(<< S_m >>, S_A, << >>)
    /\ traits[1].box_innermost = Some(QualifiedName(<< S_m >>, S_A))

\* an owning box is reachable by unwrapping box, option and reference nodes
RECURSIVE BoxReachable(_)
BoxReachable(n) ==
    \/ n.is_box
    \/ n.is_option /\ n.option_inner # None /\ BoxReachable(n.option_inner[1])
    \/ n.is_reference /\ n.reference_inner # None
          /\ BoxReachable(n.reference_inner[1])

\* C10: box_innermost is present at a node iff an owning box is reachable
\* from it through box / option / reference wrappers; in particular it is
\* present at every node with is_box = true.
C10_BoxInnermostPresence ==
    \A n \in ResultNodes :
        /\ (n.box_innermost # None) <=> BoxReachable(n)
        /\ n.is_box => n.box_innermost # None

\* C24: a raw-pointer node has no box_innermost, whatever it points to, and
\* a Box whose payload is a raw pointer has the payload's own normalized
\* rendering as box_innermost, nothing from behind the pointer.
C24_PointerNotUnwrapped ==
    \A n \in ResultNodes :
        /\ n.is_pointer => n.box_innermost = None
        /\ (n.is_box /\ n.box_inner # None /\ n.box_inner[1].is_pointer) =>
              n.box_innermost = Some(n.box_inner[1].normalized)

\* Box<*mut Box<T>>: the outer box reports the pointer, the pointer reports
\* nothing, the inner box reports T
C24_Witness ==
    /\ Classified
    /\ traits[1].is_box
    /\ traits[1].box_inner # None
    /\ traits[1].box_inner[1].is_pointer
    /\ traits[1].box_inner[1].pointer_inner # None
    /\ traits[1].box_inner[1].pointer_inner[1].is_box
    /\ traits[1].box_inner[1].pointer_inner[1].box_innermost = Some(S_T)
    /\ traits[1].box_inner[1].box_innermost = None
    /\ traits[1].box_innermost = Some(traits[1].box_inner[1].normalized)

\* C25: the classification of a parenthesized type (T) is the
\* classification of T in every field, except raw and normalized, which
\* hold the rendering of (T).
C25_ParenTransparent ==
    (Classified /\ ty[1].kind = "Paren") =>
        /\ traits[1] = [analyze_type(ty[1].elem[1])
                            EXCEPT !.raw = Raw(ty[1]),
                                   !.normalized = normalize_token_string(Raw(ty[1]))]
        /\ traits[1].raw # analyze_type(ty[1].elem[1]).raw

\* a parenthesized pointer to a box: flags, inner nodes and pointer metadata
\* of the pointer under the rendering of the parenthesized type
C25_Witness ==
    /\ Classified
    /\ ty[1].kind = "Paren"
    /\ ty[1].elem[1].kind = "Ptr"
    /\ traits[1].is_pointer
    /\ traits[1].pointer_inner # None
    /\ traits[1].pointer_inner[1].is_box
    /\ traits[1].pointer_element # None
    /\ traits[1].raw = Raw(ty[1])

\* the candidate names compute_pointer_metadata derives for a pointer node
CandidatesOf(n) ==
    IF pointer_base(n) = None THEN << >>
    ELSE pointer_candidates(pointer_base(n)[1].path_ident,
                            normalize_token_string(pointer_base(n)[1].normalized),
                            normalize_token_string(pointer_base(n)[1].raw))

\* C11: at every node pointer_element is present iff is_pointer is true, the
\* three pointer_base_* fields are absent where is_pointer is false, and a
\* pointer whose base yields no candidate name has pointer_element "u8".
C11_PointerElementPresence ==
    \A n \in ResultNodes :
        /\ (n.pointer_element # None) <=> n.is_pointer
        /\ ~n.is_pointer =>
              /\ n.pointer_base_ident = None
              /\ n.pointer_base_normalized = None
              /\ n.pointer_base_raw = None
        /\ (n.is_pointer /\ CandidatesOf(n) = << >>) =>
              n.pointer_element = Some(S_u8)

\* a reference to a pointer to a boxed name: pointer and non-pointer nodes
\* above and below each other in one tree
C11_Witness ==
    /\ Classified
    /\ traits[1].is_reference
    /\ traits[1].pointer_element = None
    /\ traits[1].reference_inner[1].is_pointer
    /\ traits[1].reference_inner[1].pointer_element # None
    /\ traits[1].reference_inner[1].pointer_inner[1].is_box
    /\ traits[1].reference_inner[1].pointer_inner[1].pointer_element = None

(***************************************************************************)
(* The precedence of compute_pointer_metadata, stated over the base's own  *)
(* fields.                                                                 *)
(***************************************************************************)
\* a list without empty values and without repetitions, in first-seen order
RECURSIVE Dedup(_, _)
Dedup(list, seen) ==
    IF list = << >> THEN seen
    ELSE Dedup(Tail(list),
               IF Head(list) = << >> \/ \E k \in 1..Len(seen) : seen[k] = Head(list)
               THEN seen ELSE Append(seen, Head(list)))

\* path_ident, normalized, raw of the base, then the final "::" segment of
\* each of them that has one
PrecedenceList(base) ==
    LET heads == Dedup((IF base.path_ident = None THEN << >> ELSE base.path_ident)
                       \o << normalize_token_string(base.normalized),
                             normalize_token_string(base.raw) >>, << >>)
        tails == [k \in 1..Len(heads) |-> LastSegment(heads[k])]
    IN  Dedup(tails, heads)

\* the first value of the list at one of the given positions
FirstAmong(list, positions) ==
    IF positions = {} THEN None
    ELSE Some(list[CHOOSE k \in positions : \A j \in positions : k <= j])

\* C22: pointer_element of a raw pointer is decided by strict precedence
\* over the ordered candidate list of its base: the mapped primitive of the
\* first candidate the alias table knows; else the first candidate that is a
\* numeric primitive name; else the first candidate; else "u8".  A table
\* match on a later candidate wins over a primitive name met earlier.
C22_ElementPrecedence ==
    \A n \in ResultNodes :
        (n.is_pointer /\ pointer_base(n) # None) =>
            LET list == PrecedenceList(pointer_base(n)[1])
                hit == FirstAmong(list, { k \in 1..Len(list) :
                                             map_libc_scalar(list[k]) # None })
                prim == FirstAmong(list, { k \in 1..Len(list) :
                                              is_numeric_primitive(list[k]) })
            IN  n.pointer_element =
                    IF hit # None THEN map_libc_scalar(hit[1])
                    ELSE IF prim # None THEN prim
                    ELSE IF list # << >> THEN Some(list[1])
                    ELSE Some(S_u8)

\* a pointer to n::i32 under a table that maps m::i32 to i64: the candidate
\* i32 is a primitive name and the table knows it by its final segment
C22_Witness ==
    /\ Classified
    /\ PtrTarget(ty[1]).qual = << S_n >>
    /\ PtrTarget(ty[1]).ident = S_i32
    /\ table = << << QualifiedName(<< S_m >>, S_i32), S_i64 >> >>
    /\ traits[1].pointer_element = Some(S_i64)

\* the raw pointer of the call points, through any number of layers, to a
\* bare numeric primitive name
PointsToPrimitive ==
    /\ PtrLayers(ty[1]) >= 1
    /\ PtrTarget(ty[1]).kind = "Path"
    /\ PtrTarget(ty[1]).qual = << >>
    /\ PtrTarget(ty[1]).args = << >>
    /\ is_numeric_primitive(PtrTarget(ty[1]).ident)

\* the table has an entry whose alias, or whose final "::" segment, is name
TableNames(name) ==
    \E k \in 1..Len(table) :
        table[k][1] = name \/ LastSegment(table[k][1]) = name

\* C23 as stated: a raw pointer to a numeric primitive name has that name
\* as pointer_element under every alias table.
C23_PrimitiveUnderEveryTable ==
    (Classified /\ PointsToPrimitive) =>
        traits[1].pointer_element = Some(PtrTarget(ty[1]).ident)

\* C23: a raw pointer of any depth to a numeric primitive name has that
\* name as pointer_element under every alias table that has no entry for
\* the name, neither as a whole alias nor as the final segment of one.
C23_PrimitivePassThrough ==
    (Classified /\ PointsToPrimitive /\ ~TableNames(PtrTarget(ty[1]).ident)) =>
        traits[1].pointer_element = Some(PtrTarget(ty[1]).ident)

\* a pointer of the full depth to i32 under a table of other names
C23_Witness ==
    /\ Classified
    /\ PointsToPrimitive
    /\ PtrLayers(ty[1]) = MaxPtrDepth
    /\ Len(table) = MaxTable
    /\ ~TableNames(S_i32)
    /\ traits[1].pointer_element = Some(S_i32)

\* the raw pointer of the call points to a path-qualified name, written in
\* full
PointsToQualified ==
    /\ PtrLayers(ty[1]) >= 1
    /\ PtrTarget(ty[1]).kind = "Path"
    /\ PtrTarget(ty[1]).args = << >>
    /\ PtrTarget(ty[1]).qual # << >>

WrittenName == QualifiedName(PtrTarget(ty[1]).qual, PtrTarget(ty[1]).ident)

\* C29: a raw pointer whose base is written exactly as the full
\* path-qualified alias of a table entry has that entry's primitive as
\* pointer_element, whatever else the table holds and in whatever order.
C29_ExactAliasWins ==
    (Classified /\ PointsToQualified) =>
        \A k \in 1..Len(table) :
            table[k][1] = WrittenName =>
                traits[1].pointer_element = Some(table[k][2])

(***************************************************************************)
(* Inputs of map_libc_scalar: every table of at most MaxTable entries and  *)
(* a bare or path-qualified query name.                                    *)
(***************************************************************************)
LookupNames ==
    { S_A, S_B, S_i32,
      QualifiedName(<< S_m >>, S_A),
      QualifiedName(<< S_n >>, S_A),
      QualifiedName(<< S_libc >>, S_B) }

InitLookup ==
    /\ pc = "lookup"
    /\ text \in LookupNames
    /\ table \in TablesUpTo(MaxTable)
    /\ ty = None
    /\ traits = None
    /\ once = None
    /\ twice = None
    /\ items = << >>
    /\ out = None
    /\ parser = NoParser
    /\ TableBuilt

\* map_libc_scalar(name)
MapLibcScalar ==
    /\ pc = "lookup"
    /\ out' = Some(map_libc_scalar(text))
    /\ pc' = "lookup_done"
    /\ UNCHANGED << text, once, twice, table, ty, traits, items, lockvars, parser >>

NextLookup == MapLibcScalar

SpecLookup == InitLookup /\ [][NextLookup]_vars

\* the indices of the table entries that match a name
MatchingEntries(name) ==
    { k \in 1..Len(table) :
        table[k][1] = name \/ LastSegment(table[k][1]) = name }

\* C12: the lookup returns the primitive of the first entry, in table order,
\* whose full alias or final "::" segment equals the name, and none when no
\* entry matches.
C12_FirstMatchWins ==
    pc = "lookup_done" =>
        IF MatchingEntries(text) = {} THEN out = Some(None)
        ELSE \E k \in MatchingEntries(text) :
                /\ \A j \in MatchingEntries(text) : k <= j
                /\ out = Some(Some(table[k][2]))

\* two entries with the same final segment and different full names: the bare
\* name resolves to the earlier one
C12_Witness ==
    /\ pc = "lookup_done"
    /\ text = S_A
    /\ table = << << QualifiedName(<< S_n >>, S_A), S_u8 >>,
                  << QualifiedName(<< S_m >>, S_A), S_i32 >> >>
    /\ out = Some(Some(S_u8))

(***************************************************************************)
(* The OnceLock LIBC_SCALAR_TO_PRIMITIVE (std::sync::OnceLock).            *)
(* cell is the state of its Once: "Incomplete", "Running" while a caller   *)
(* runs the closure, "Poisoned" after the closure panicked, "Complete"     *)
(* once the value is written.  get_or_init returns the value at once when  *)
(* the cell is complete; otherwise the caller enters the Once, where it    *)
(* runs the closure if no one is running it, and waits while someone is.   *)
(* A caller is a record: pc "idle" | "init" | "building", the number of    *)
(* calls it has made, the outcome of each finished call (the table it got, *)
(* or None where the call panicked), and whether a call of it left the     *)
(* fast path.                                                              *)
(***************************************************************************)
\* mutant: a check-then-build cell, where a running build excludes no one
may_run_closure_unguarded(state) == state # "Complete"

\* Once::call_once_force under get_or_init: the closure runs from the
\* incomplete and the poisoned state
may_run_closure(state) == state \in { "Incomplete", "Poisoned" }

NewCaller == [pc |-> "idle", calls |-> 0, seen |-> << >>, slow |-> FALSE]

OnceTexts ==
    { << >>,
      << S_A \o << "=" >> \o S_i64 >>,
      << S_A \o << "=" >> \o S_i64,
         QualifiedName(<< S_m >>, S_A) \o << "=" >> \o S_i32 >>,
      << << "#", " ", "c" >>,
         << >>,
         << " " >> \o QualifiedName(<< S_m >>, S_A) \o << " ", "=", " " >>
             \o S_i32 \o << " " >>,
         S_T \o << "=" >> \o S_i64 >> }

InitOnce ==
    /\ pc = "once"
    /\ map_text \in OnceTexts
    /\ cell = "Incomplete"
    /\ table = << >>
    /\ builds = 0
    /\ thr \in { [t \in 1..n |-> NewCaller] : n \in 1..MaxThreads }
    /\ text = << >>
    /\ once = None
    /\ twice = None
    /\ ty = None
    /\ traits = None
    /\ items = << >>
    /\ out = None
    /\ parser = NoParser

OnceFrame ==
    UNCHANGED << pc, text, once, twice, ty, traits, items, out, map_text, parser >>

\* libc_scalar_pairs(), the cell already complete: get() is Some
CallFast(t) ==
    /\ pc = "once"
    /\ thr[t].pc = "idle"
    /\ thr[t].calls < MaxCalls
    /\ cell = "Complete"
    /\ thr' = [thr EXCEPT ![t].calls = @ + 1,
                          ![t].seen = Append(@, Some(libc_scalar_pairs))]
    /\ UNCHANGED << cell, table, builds >>
    /\ OnceFrame

\* libc_scalar_pairs(), the cell not complete: the caller enters the Once
CallSlow(t) ==
    /\ pc = "once"
    /\ thr[t].pc = "idle"
    /\ thr[t].calls < MaxCalls
    /\ cell # "Complete"
    /\ thr' = [thr EXCEPT ![t].calls = @ + 1, ![t].pc = "init",
                          ![t].slow = TRUE]
    /\ UNCHANGED << cell, table, builds >>
    /\ OnceFrame

\* the caller takes the Once and starts the closure
StartBuild(t) ==
    /\ pc = "once"
    /\ thr[t].pc = "init"
    /\ may_run_closure(cell)
    /\ cell' = "Running"
    /\ builds' = builds + 1
    /\ thr' = [thr EXCEPT ![t].pc = "building"]
    /\ UNCHANGED table
    /\ OnceFrame

\* the caller found the Once running and is woken with the cell complete
AfterWait(t) ==
    /\ pc = "once"
    /\ thr[t].pc = "init"
    /\ cell = "Complete"
    /\ thr' = [thr EXCEPT ![t].pc = "idle",
                          ![t].seen = Append(@, Some(libc_scalar_pairs))]
    /\ UNCHANGED << cell, table, builds >>
    /\ OnceFrame

\* the closure ends: its value is written and the cell completed, or its
\* panic poisons the Once and unwinds into the caller
finish_build(t, built) ==
    IF built.panicked
    THEN /\ cell' = "Poisoned"
         /\ table' = table
         /\ thr' = [thr EXCEPT ![t].pc = "idle", ![t].seen = Append(@, None)]
    ELSE /\ cell' = "Complete"
         /\ table' = built.pairs
         /\ thr' = [thr EXCEPT ![t].pc = "idle",
                               ![t].seen = Append(@, Some(built.pairs))]

FinishBuild(t) ==
    /\ pc = "once"
    /\ thr[t].pc = "building"
    /\ finish_build(t, build_pairs(map_text))
    /\ UNCHANGED builds
    /\ OnceFrame

NextOnce ==
    \E t \in DOMAIN thr :
        \/ CallFast(t)
        \/ CallSlow(t)
        \/ StartBuild(t)
        \/ AfterWait(t)
        \/ FinishBuild(t)

SpecOnce == InitOnce /\ [][NextOnce]_vars

\* C13: whatever the number of racing callers, the closure is entered at most
\* once, a call has returned only when that build has completed, and every
\* call, concurrent or later, has observed the one table, which is the value
\* the cell still holds.
C13_BuiltOnce ==
    pc = "once" =>
        /\ builds <= 1
        /\ Cardinality({ t \in DOMAIN thr : thr[t].pc = "building" })
               = IF cell = "Running" THEN 1 ELSE 0
        /\ \A t \in DOMAIN thr : \A k \in 1..Len(thr[t].seen) :
              /\ cell = "Complete"
              /\ builds = 1
              /\ thr[t].seen[k] = Some(table)
        /\ cell = "Complete" => table = build_pairs(map_text).pairs

\* every caller raced on the first access, one of them built a table of two
\* entries, and each has since made all its calls
C13_Witness ==
    /\ pc = "once"
    /\ Len(thr) = MaxThreads
    /\ Len(table) = 2
    /\ builds = 1
    /\ \A t \in DOMAIN thr :
          /\ thr[t].slow
          /\ thr[t].pc = "idle"
          /\ Len(thr[t].seen) = MaxCalls

(***************************************************************************)
(* Inputs of the table construction: every resource text of at most        *)
(* MaxLines lines of at most MaxLineLen characters, built on first use by  *)
(* a single caller.                                                        *)
(***************************************************************************)
LineChars == { "a", "=", "#", " " }

RECURSIVE LinesUpTo(_)
LinesUpTo(n) ==
    IF n = 0 THEN { << >> }
    ELSE LinesUpTo(n - 1) \cup
         { Append(l, c) : l \in LinesUpTo(n - 1), c \in LineChars }

RECURSIVE TextsUpTo(_)
TextsUpTo(n) ==
    IF n = 0 THEN { << >> }
    ELSE TextsUpTo(n - 1) \cup
         { Append(x, l) : x \in TextsUpTo(n - 1), l \in LinesUpTo(MaxLineLen) }

InitTable ==
    /\ pc = "build"
    /\ map_text \in TextsUpTo(MaxLines)
    /\ cell = "Incomplete"
    /\ table = << >>
    /\ builds = 0
    /\ thr = << NewCaller >>
    /\ text = << >>
    /\ once = None
    /\ twice = None
    /\ ty = None
    /\ traits = None
    /\ items = << >>
    /\ out = None
    /\ parser = NoParser

\* the first libc_scalar_pairs(): the closure runs in the caller
BuildTable ==
    /\ pc = "build"
    /\ builds' = builds + 1
    /\ finish_build(1, build_pairs(map_text))
    /\ pc' = IF build_pairs(map_text).panicked THEN "build_panicked"
             ELSE "build_done"
    /\ UNCHANGED << text, once, twice, ty, traits, items, out, map_text, parser >>

NextTable == BuildTable

SpecTable == InitTable /\ [][NextTable]_vars

\* a line the construction ignores
Ignored(line) == Trim(line) = << >> \/ Trim(line)[1] = "#"

\* exactly one "=" separating two non-empty trimmed strings
ExactlyOneEquals(line) ==
    /\ Cardinality({ k \in 1..Len(line) : line[k] = "=" }) = 1
    /\ Trim(SubSeq(line, 1, FirstIndex(line, "=") - 1)) # << >>
    /\ Trim(SubSeq(line, FirstIndex(line, "=") + 1, Len(line))) # << >>

\* the lines that are not ignored, in order
EntryLines(lines) == SelectSeq(lines, LAMBDA l : ~Ignored(l))

\* C14: blank and "#" lines are ignored; the construction panics iff some
\* other line does not consist of exactly one "=" between two non-empty
\* trimmed strings (no "=", an empty side, or more than one "="), and a table
\* that is built has one entry for each of the other lines.
C14_OnlyWellFormedLines ==
    pc \in { "build_done", "build_panicked" } =>
        /\ pc = "build_panicked" <=>
              \E k \in 1..Len(EntryLines(map_text)) :
                  ~ExactlyOneEquals(EntryLines(map_text)[k])
        /\ pc = "build_done" =>
              /\ Len(table) = Len(EntryLines(map_text))
              /\ \A k \in 1..Len(table) :
                    ExactlyOneEquals(EntryLines(map_text)[k])

(***************************************************************************)
(* Inputs of normalize_stdint_aliases: every unit of at most MaxItems      *)
(* top-level items drawn from a pool of use declarations, type aliases and *)
(* other items.                                                            *)
(***************************************************************************)
ItemPool ==
    { ItemUse(UsePath("libc", UseName("c_int"))),
      ItemUse(UsePath("libc", UseName("int32_t"))),
      ItemUse(UsePath("libc", UseGroup(<< UseName("c_int"), UseName("int32_t") >>))),
      ItemUse(UsePath("libc", UseGroup(<< UseName("c_int") >>))),
      ItemUse(UsePath("libc", UseGlob)),
      ItemUse(UsePath("libc", UseRename("int32_t", "i32_t"))),
      ItemUse(UsePath("std", UseName("mem"))),
      ItemUse(UsePath("libc", UsePath("sub", UseName("int32_t")))),
      ItemUse(UsePath("libc", UseGroup(<< UseName("c_int"), UseGlob >>))),
      ItemTypeGlobal("int32_t", << "i32" >>),
      ItemOtherGlobal(<< "int32_t" >>),
      ItemType("int32_t", << "i32" >>, FALSE),
      ItemType("int32_t", << "i64" >>, FALSE),
      ItemType("int32_t", << "core", "i32" >>, FALSE),
      ItemType("uint8_t", << "u8" >>, FALSE),
      ItemOther({ << "int32_t" >> }),
      ItemOther({ << "uint8_t" >>, << "libc", "int32_t" >> }),
      ItemOther({ }) }

RECURSIVE Units(_)
Units(n) ==
    IF n = 0 THEN { << >> }
    ELSE Units(n - 1) \cup { Append(u, i) : u \in Units(n - 1), i \in ItemPool }

InitAliases ==
    /\ pc = "unit"
    /\ items \in Units(MaxItems)
    /\ out = None
    /\ parser = NoParser
    /\ table = << >>
    /\ ty = None
    /\ traits = None
    /\ text = << >>
    /\ once = None
    /\ twice = None
    /\ TableBuilt

\* unidiomatic_function_cleanup / unidiomatic_types_cleanup, after the parse
NormalizeStdintAliases ==
    /\ pc = "unit"
    /\ out' = Some(normalize_stdint_aliases(items))
    /\ pc' = "unit_done"
    /\ UNCHANGED << text, once, twice, table, ty, traits, items, lockvars, parser >>

\* a later cleanup pass over the unit the first one returned
NormalizeStdintAliasesAgain ==
    /\ pc = "unit_done"
    /\ twice' = Some(normalize_stdint_aliases(out[1]))
    /\ pc' = "unit_again"
    /\ UNCHANGED << text, once, table, ty, traits, items, out, lockvars, parser >>

NextAliases == NormalizeStdintAliases \/ NormalizeStdintAliasesAgain

SpecAliases == InitAliases /\ [][NextAliases]_vars

\* the number of leaves of a use tree that bring `name` into scope from
\* libc: a Name leaf `name` or a glob, below a `libc` path
RECURSIVE ImportsInTree(_, _, _)
RECURSIVE ImportsInTrees(_, _, _, _)
ImportsInTrees(trees, k, in_libc, name) ==
    IF k > Len(trees) THEN 0
    ELSE ImportsInTree(trees[k], in_libc, name)
         + ImportsInTrees(trees, k + 1, in_libc, name)

ImportsInTree(tree, in_libc, name) ==
    CASE tree.kind = "Path" ->
            ImportsInTree(tree.sub[1], in_libc \/ tree.ident = "libc", name)
      [] tree.kind = "Group" -> ImportsInTrees(tree.sub, 1, in_libc, name)
      [] tree.kind = "Name" -> IF in_libc /\ tree.ident = name THEN 1 ELSE 0
      [] tree.kind = "Glob" -> IF in_libc THEN 1 ELSE 0
      [] OTHER -> 0

RECURSIVE ImportsOf(_, _)
ImportsOf(list, name) ==
    IF list = << >> THEN 0
    ELSE (IF Head(list).kind = "Use"
          THEN ImportsInTree(Head(list).tree[1], FALSE, name) ELSE 0)
         + ImportsOf(Tail(list), name)

HasRedundantAlias(list, name) ==
    \E k \in 1..Len(list) : IsStripped(list[k]) /\ list[k].ident = name

HasBareUse(list, name) ==
    \E k \in 1..Len(list) :
        list[k].kind = "Other" /\ BarePath(<< name >>) \in list[k].paths

StdintNames == { STDINT_ALIAS_TARGETS[k][1] : k \in 1..Len(STDINT_ALIAS_TARGETS) }

\* C1: for a unit with a redundant alias `type N = <primitive>;` and a bare
\* use of N, the output has no such alias and exactly one import that brings
\* N into scope from libc; when the unit already imports N from libc, no
\* second import of N is created.
C1_OneImport ==
    pc = "unit_done" =>
        \A name \in StdintNames :
            (HasRedundantAlias(items, name) /\ HasBareUse(items, name)) =>
                /\ ~HasRedundantAlias(out[1], name)
                /\ IF ImportsOf(items, name) = 0
                   THEN ImportsOf(out[1], name) = 1
                   ELSE ImportsOf(out[1], name) = ImportsOf(items, name)

\* a use tree directly below `libc` that brings `name` into scope under
\* its own name: the name itself, a glob, or a group with one of the two
BringsName(tree, name) ==
    \/ tree.kind = "Glob"
    \/ tree.kind = "Name" /\ tree.ident = name
    \/ /\ tree.kind = "Group"
       /\ \E j \in 1..Len(tree.sub) :
             \/ tree.sub[j].kind = "Glob"
             \/ tree.sub[j].kind = "Name" /\ tree.sub[j].ident = name

DirectlyImported(list, name) ==
    \E k \in 1..Len(list) :
        /\ list[k].kind = "Use"
        /\ list[k].tree[1].kind = "Path"
        /\ list[k].tree[1].ident = "libc"
        /\ BringsName(list[k].tree[1].sub[1], name)

\* the names of the removed redundant aliases and the stdint names still
\* used as bare single-segment paths in the remaining items
NeededNames(list) ==
    { name \in StdintNames :
        \/ HasRedundantAlias(list, name)
        \/ \E k \in 1..Len(list) :
              ~IsStripped(list[k]) /\ BarePath(<< name >>) \in list[k].paths }

\* C18: after the pass every needed name is brought into scope under its own
\* name directly from libc (libc::name, a member of a group below libc, or
\* libc::*), whatever libc imports the unit already had.
C18_NeededNamesImported ==
    pc = "unit_done" =>
        \A name \in NeededNames(items) : DirectlyImported(out[1], name)

\* a type alias of a canonical name whose right-hand side is exactly the
\* paired primitive: one segment, no leading `::`, no generic arguments
ExactAlias(item) ==
    /\ item.kind = "Type"
    /\ expected_stdint_target(item.ident) # None
    /\ ~item.rhs.leading_colon
    /\ item.rhs.segments = << expected_stdint_target(item.ident)[1] >>
    /\ ~item.rhs.arguments

KeptItems(list) == SelectSeq(list, LAMBDA i : ~ExactAlias(i))

\* the same items position by position; a use declaration may have been
\* rewritten in place
SameItems(a, b) ==
    /\ Len(a) = Len(b)
    /\ \A k \in 1..Len(a) :
          /\ a[k].kind = b[k].kind
          /\ a[k].kind # "Use" => a[k] = b[k]

Without(list, j) == [k \in 1..(Len(list) - 1) |-> IF k < j THEN list[k] ELSE list[k + 1]]

\* the names the exact aliases and the bare paths of the other items ask for
ExactNeeded(list) ==
    { name \in StdintNames :
        \/ \E k \in 1..Len(list) : ExactAlias(list[k]) /\ list[k].ident = name
        \/ \E k \in 1..Len(list) :
              ~ExactAlias(list[k]) /\ BarePath(<< name >>) \in list[k].paths }

\* C19: normalize_stdint_aliases always returns an item list; the list is the
\* input without exactly those type aliases whose name is canonical and whose
\* right-hand side is the paired primitive as one unqualified, argument-free
\* path; every other item is kept at its place in the original order (at
\* most one use declaration is added); with an empty needed set the list is
\* returned unchanged.
C19_DropsExactAliasesOnly ==
    pc = "unit_done" =>
        /\ Len(out) = 1
        /\ \/ SameItems(out[1], KeptItems(items))
           \/ \E j \in 1..Len(out[1]) :
                 /\ out[1][j].kind = "Use"
                 /\ SameItems(Without(out[1], j), KeptItems(items))
        /\ ExactNeeded(items) = {} => out[1] = items

\* `use libc::*;` or a group directly below `libc` with a glob member
IsLibcGlob(item) ==
    /\ item.kind = "Use"
    /\ item.tree[1].kind = "Path"
    /\ item.tree[1].ident = "libc"
    /\ \/ item.tree[1].sub[1].kind = "Glob"
       \/ /\ item.tree[1].sub[1].kind = "Group"
          /\ \E j \in 1..Len(item.tree[1].sub[1].sub) :
                item.tree[1].sub[1].sub[j].kind = "Glob"

UseItems(list) == SelectSeq(list, LAMBDA i : i.kind = "Use")

\* C20: when the unit has a glob import of libc among its use declarations,
\* wherever it stands, normalize_stdint_aliases adds no use declaration and
\* leaves every existing use declaration as it was.
C20_GlobShortCircuits ==
    (pc = "unit_done" /\ \E k \in 1..Len(items) : IsLibcGlob(items[k])) =>
        UseItems(out[1]) = UseItems(items)

\* C27: normalize_stdint_aliases applied to its own result returns it
\* unchanged: no further import, no use declaration modified.
C27_AliasesIdempotent ==
    pc = "unit_again" => twice[1] = out[1]

\* the unit declares `name` by a top-level type alias
DeclaresAlias(list, name) ==
    \E k \in 1..Len(list) : list[k].kind = "Type" /\ list[k].ident = name

\* C28: after normalize_stdint_aliases no stdint name is both declared by a
\* type alias the pass kept and brought in from libc by an import the pass
\* added or extended.
C28_NoImportOfDeclaredName ==
    pc = "unit_done" =>
        \A name \in StdintNames :
            DeclaresAlias(out[1], name) =>
                ImportsOf(out[1], name) <= ImportsOf(items, name)

(***************************************************************************)
(* The exported calls that parse text.  The syn parser is opaque: parser   *)
(* says what it does with the source text and with the fragment (type,     *)
(* signature, statement or attribute) of the call: "valid" it returns a    *)
(* syntax tree, "invalid" it returns a syn::Error, "panics" it panics,     *)
(* and "grammar" the fragment is parsed by parse_type / parse_item_fn      *)
(* below.  The result of a call is a record: kind "Ok", the name of the    *)
(* Python exception of an Err, or "Panic" where a panic leaves the call;   *)
(* parses counts the parser invocations of the call.                       *)
(***************************************************************************)
Ok(value, parses) ==
    [kind |-> "Ok", message |-> "", value |-> Some(value), parses |-> parses]
Err(kind, message, parses) ==
    [kind |-> kind, message |-> message, value |-> None, parses |-> parses]
Panicked(parses) ==
    [kind |-> "Panic", message |-> "", value |-> None, parses |-> parses]

NoSpace(s) == SelectSeq(s, LAMBDA c : c # Space)

\* str::trim_end_matches(c)
RECURSIVE TrimEndMatches(_, _)
TrimEndMatches(s, c) ==
    IF s # << >> /\ s[Len(s)] = c
    THEN TrimEndMatches(SubSeq(s, 1, Len(s) - 1), c)
    ELSE s

\* the types and signatures the grammar of the model knows
S_f == << "f" >>
S_x == << "x" >>
S_fn == << "f", "n" >>
S_self == << "&", "s", "e", "l", "f" >>

GrammarTypes ==
    { TPath(<< >>, S_i32, << >>),
      TPtr(TRUE, TPath(<< >>, S_A, << >>)),
      TArray(TPath(<< >>, S_u8, << >>), << "4" >>),
      TArray(TPath(<< >>, S_u8, << >>), << "{", Space, "4", Space, "}" >>) }

\* the name of the k-th parameter: x, xx, ...
ParamName(k) == [j \in 1..k |-> "x"]

RECURSIVE ParamLists(_)
ParamLists(n) ==
    IF n = 0 THEN { << >> }
    ELSE ParamLists(n - 1) \cup
         { Append(ps, [name |-> ParamName(Len(ps) + 1), ty |-> t]) :
             ps \in { q \in ParamLists(n - 1) : Len(q) = n - 1 },
             t \in GrammarTypes }

Signatures ==
    { [name |-> S_f, receiver |-> r, params |-> ps, ret |-> o] :
        r \in BOOLEAN, ps \in ParamLists(MaxParams),
        o \in { None, Some(TPath(<< >>, S_i32, << >>)),
                Some(TPtr(TRUE, TPath(<< >>, S_A, << >>))) } }

\* the text of a signature, without a body
RECURSIVE RenderParams(_, _)
RenderParams(ps, k) ==
    IF k > Len(ps) THEN << >>
    ELSE (IF k = 1 THEN << >> ELSE << ",", Space >>)
         \o ps[k].name \o << ":", Space >> \o Raw(ps[k].ty)
         \o RenderParams(ps, k + 1)

RenderSig(sig) ==
    S_fn \o << Space >> \o sig.name \o << "(" >>
    \o (IF sig.receiver
        THEN S_self \o (IF sig.params = << >> THEN << >> ELSE << ",", Space >>)
        ELSE << >>)
    \o RenderParams(sig.params, 1) \o << ")" >>
    \o (IF sig.ret = None THEN << >>
        ELSE << Space, "-", ">", Space >> \o Raw(sig.ret[1]))

EmptyBody == << "{", "}" >>

\* syn::parse_str::<syn::Type> on a text of the grammar
parse_type(s) ==
    IF \E t \in GrammarTypes : NoSpace(Raw(t)) = NoSpace(s)
    THEN Some(CHOOSE t \in GrammarTypes : NoSpace(Raw(t)) = NoSpace(s))
    ELSE None

\* syn::parse_str::<syn::ItemFn> on a text of the grammar: a signature
\* followed by a body
parse_item_fn(s) ==
    IF \E sig \in Signatures : NoSpace(RenderSig(sig) \o EmptyBody) = NoSpace(s)
    THEN Some(CHOOSE sig \in Signatures :
                  NoSpace(RenderSig(sig) \o EmptyBody) = NoSpace(s))
    ELSE None

\* parse_src: catch_unwind around parse_str turns a panic into an Err
parse_src(behaviour) ==
    CASE behaviour = "valid" -> Ok("File", 1)
      [] behaviour = "invalid" -> Err("SyntaxError", "Error: Context:", 1)
      [] OTHER -> Err("SyntaxError", "Error when parsing Rust", 1)

\* lines 1021-1025: parse_str is called directly
parsed_type_traits(trimmed, behaviour) ==
    IF behaviour = "panics" THEN Panicked(1)
    ELSE IF parse_type(trimmed) = None
         THEN Err("ValueError", "Failed to parse type", 1)
         ELSE Ok(analyze_type(parse_type(trimmed)[1]), 1)

\* mutant: the text is handed to the parser without the emptiness test
parse_type_traits_unchecked(ty_text, behaviour) ==
    parsed_type_traits(Trim(ty_text), behaviour)

\* parse_type_traits
parse_type_traits(ty_text, behaviour) ==
    IF Trim(ty_text) = << >>
    THEN Err("ValueError", "Type string cannot be empty", 0)
    ELSE parsed_type_traits(Trim(ty_text), behaviour)

\* lines 984-996: one entry of params
param_entry(name, analyzed) ==
    [name |-> name, type |-> analyzed.raw, traits |-> analyzed]

\* lines 1001-1007
return_entry(ret) ==
    IF ret = None THEN None ELSE Some(analyze_type(ret[1]))

\* lines 977-1009: receivers are skipped, so only the typed inputs count
signature_value(item) ==
    [name |-> item.name,
     params |-> [k \in 1..Len(item.params) |->
                    param_entry(item.params[k].name,
                                analyze_type(item.params[k].ty))],
     return |-> return_entry(item.ret)]

\* lines 970-975: parse_str is called directly
parsed_signature(snippet, behaviour) ==
    IF behaviour = "panics" THEN Panicked(1)
    ELSE IF parse_item_fn(snippet) = None
         THEN Err("ValueError", "Failed to parse function signature", 1)
         ELSE Ok(signature_value(parse_item_fn(snippet)[1]), 1)

\* lines 964-968
signature_snippet(cleaned) ==
    IF Contains(cleaned, << "{" >>) THEN cleaned
    ELSE cleaned \o << Space >> \o EmptyBody

\* parse_function_signature
parse_function_signature(signature, behaviour) ==
    IF Trim(signature) = << >>
    THEN Err("ValueError", "Function signature cannot be empty", 0)
    ELSE parsed_signature(
             signature_snippet(TrimEndMatches(Trim(signature), ";")),
             behaviour)

\* the items of the parsed file that the call looks for
ItemFn(ident) ==
    [kind |-> "Fn", tree |-> None, ident |-> ident, rhs |-> NoPath,
     paths |-> {}]
ItemStruct(ident) ==
    [kind |-> "Struct", tree |-> None, ident |-> ident, rhs |-> NoPath,
     paths |-> {}]

Matching(list, kinds, name) ==
    { k \in 1..Len(list) : list[k].kind \in kinds /\ list[k].ident = name }

\* lines 129-170, after parse_src succeeded
append_parsed_stmt(list, name, stmt) ==
    IF stmt = "panics" THEN Panicked(2)
    ELSE IF stmt = "invalid"
         THEN Err("ValueError", "Failed to parse statement", 2)
    ELSE IF Matching(list, { "Fn" }, name) = {}
         THEN Err("ValueError", "Function not found", 2)
    ELSE Ok("File", 2)

\* append_stmt_to_function
append_stmt_to_function(behaviour, list, name) ==
    IF parse_src(behaviour.source).kind # "Ok"
    THEN parse_src(behaviour.source)
    ELSE append_parsed_stmt(list, name, behaviour.fragment)

\* lines 1519-1542 and 1570-1582: the attribute is parsed once for each item
\* of the name
add_parsed_attr(matches, attr) ==
    IF matches = 0 THEN Ok("File", 1)
    ELSE IF attr = "panics" THEN Panicked(2)
    ELSE IF attr = "invalid" THEN Err("SyntaxError", "Parse error:", 2)
    ELSE Ok("File", 1 + matches)

\* add_attr_to_function
add_attr_to_function(behaviour, list, name) ==
    IF parse_src(behaviour.source).kind # "Ok"
    THEN parse_src(behaviour.source)
    ELSE add_parsed_attr(Cardinality(Matching(list, { "Fn" }, name)),
                         behaviour.fragment)

\* add_attr_to_struct_union
add_attr_to_struct_union(behaviour, list, name) ==
    IF parse_src(behaviour.source).kind # "Ok"
    THEN parse_src(behaviour.source)
    ELSE add_parsed_attr(
             Cardinality(Matching(list, { "Struct", "Union" }, name)),
             behaviour.fragment)

(***************************************************************************)
(* Inputs of the exported calls: for each call a few argument texts        *)
(* (empty, whitespace only, inside and outside the grammar), every         *)
(* behaviour of the parser on them, and files with and without an item of  *)
(* the name the call looks for.                                            *)
(***************************************************************************)
FunctionName == "f"

TypeTexts ==
    { << >>, << Space >>, << Space, Space >>,
      << Space >> \o Raw(TPtr(TRUE, TPath(<< >>, S_A, << >>))) \o << Space >>,
      << "<" >> }

SignatureTexts ==
    { << >>, << Space >>, << Space, Space >>,
      << Space >> \o RenderSig(
          [name |-> S_f, receiver |-> FALSE, params |-> << >>, ret |-> None])
          \o << Space, ";" >>,
      RenderSig([name |-> S_f, receiver |-> TRUE,
                 params |-> << [name |-> S_x,
                                ty |-> TPath(<< >>, S_i32, << >>)] >>,
                 ret |-> Some(TPath(<< >>, S_i32, << >>))])
          \o << Space >> \o EmptyBody,
      << "<" >> }

Behaviours == { "valid", "invalid", "panics" }

EntryFiles ==
    { << >>, << ItemFn("f") >>, << ItemStruct("f"), ItemFn("g") >>,
      << ItemFn("g"), ItemFn("f"), ItemStruct("f") >> }

EntryInputs ==
    { [op |-> "parse_type_traits", text |-> t, file |-> << >>,
       parser |-> [source |-> "valid", fragment |-> f]] :
        t \in TypeTexts, f \in { "grammar", "panics" } }
    \cup
    { [op |-> "parse_function_signature", text |-> t, file |-> << >>,
       parser |-> [source |-> "valid", fragment |-> f]] :
        t \in SignatureTexts, f \in { "grammar", "panics" } }
    \cup
    { [op |-> "get_func_signatures", text |-> << >>, file |-> l,
       parser |-> [source |-> b, fragment |-> "valid"]] :
        l \in EntryFiles, b \in Behaviours }
    \cup
    { [op |-> o, text |-> << >>, file |-> l,
       parser |-> [source |-> b, fragment |-> f]] :
        o \in { "append_stmt_to_function", "add_attr_to_function",
                "add_attr_to_struct_union" },
        l \in EntryFiles, b \in Behaviours, f \in Behaviours }

InitEntry ==
    /\ \E input \in EntryInputs :
          /\ pc = input.op
          /\ text = input.text
          /\ items = input.file
          /\ parser = input.parser
    /\ table \in TypeTables
    /\ ty = None
    /\ traits = None
    /\ once = None
    /\ twice = None
    /\ out = None
    /\ TableBuilt

\* the call returns, or a panic leaves it
Return(op, result) ==
    /\ out' = Some([op |-> op, result |-> result])
    /\ pc' = "returned"
    /\ UNCHANGED << text, once, twice, table, ty, traits, items, lockvars,
                    parser >>

CallParseTypeTraits ==
    /\ pc = "parse_type_traits"
    /\ Return(pc, parse_type_traits(text, parser.fragment))

CallParseFunctionSignature ==
    /\ pc = "parse_function_signature"
    /\ Return(pc, parse_function_signature(text, parser.fragment))

\* get_func_signatures, standing for the calls that parse nothing but the
\* source, through parse_src
CallParseSrc ==
    /\ pc = "get_func_signatures"
    /\ Return(pc, parse_src(parser.source))

CallAppendStmt ==
    /\ pc = "append_stmt_to_function"
    /\ Return(pc, append_stmt_to_function(parser, items, FunctionName))

CallAddAttrToFunction ==
    /\ pc = "add_attr_to_function"
    /\ Return(pc, add_attr_to_function(parser, items, FunctionName))

CallAddAttrToStructUnion ==
    /\ pc = "add_attr_to_struct_union"
    /\ Return(pc, add_attr_to_struct_union(parser, items, FunctionName))

NextEntry ==
    \/ CallParseTypeTraits
    \/ CallParseFunctionSignature
    \/ CallParseSrc
    \/ CallAppendStmt
    \/ CallAddAttrToFunction
    \/ CallAddAttrToStructUnion

SpecEntry == InitEntry /\ [][NextEntry]_vars

Returned == pc = "returned"

\* C15: parse_type_traits and parse_function_signature, given an empty or
\* whitespace-only text, return the ValueError that names the empty input,
\* without a call of the parser and without a panic.
C15_EmptyInputError ==
    (/\ Returned
     /\ out[1].op \in { "parse_type_traits", "parse_function_signature" }
     /\ \A k \in 1..Len(text) : IsWhitespace(text[k])) =>
        /\ out[1].result.kind = "ValueError"
        /\ out[1].result.message =
              (IF out[1].op = "parse_type_traits"
               THEN "Type string cannot be empty"
               ELSE "Function signature cannot be empty")
        /\ out[1].result.parses = 0

\* a whitespace-only signature, given while the parser would panic
C15_Witness ==
    /\ Returned
    /\ out[1].op = "parse_function_signature"
    /\ text = << Space, Space >>
    /\ parser.fragment = "panics"
    /\ out[1].result.kind = "ValueError"

\* C16: no exported call that parses text lets a panic of the parser leave
\* the call; the panic is returned as an ordinary error.
C16_NoPanicEscapes ==
    Returned => out[1].result.kind # "Panic"

(***************************************************************************)
(* Inputs of parse_function_signature: every signature of the grammar,     *)
(* written with or without a body, followed by at most MaxSemis            *)
(* semicolons, with or without surrounding blanks.  ty holds the shape the *)
(* text was written from.                                                  *)
(***************************************************************************)
SignatureShapes ==
    { [sig |-> g, body |-> b, semis |-> n, padded |-> p] :
        g \in Signatures, b \in BOOLEAN, n \in 0..MaxSemis, p \in BOOLEAN }

SignatureText(shape) ==
    (IF shape.padded THEN << Space >> ELSE << >>)
    \o RenderSig(shape.sig)
    \o (IF shape.body THEN << Space >> \o EmptyBody ELSE << >>)
    \o [k \in 1..shape.semis |-> ";"]
    \o (IF shape.padded THEN << Space >> ELSE << >>)

InitSignature ==
    /\ pc = "parse_function_signature"
    /\ \E shape \in SignatureShapes :
          /\ ty = Some(shape)
          /\ text = SignatureText(shape)
    /\ parser = [source |-> "valid", fragment |-> "grammar"]
    /\ table \in TypeTables
    /\ traits = None
    /\ once = None
    /\ twice = None
    /\ items = << >>
    /\ out = None
    /\ TableBuilt

NextSignature == CallParseFunctionSignature

SpecSignature == InitSignature /\ [][NextSignature]_vars

\* the name and the raw type of every typed parameter, in declaration order
TypedParams(sig) ==
    [k \in 1..Len(sig.params) |->
        [name |-> sig.params[k].name, type |-> Raw(sig.params[k].ty)]]

ReportedParams(value) ==
    [k \in 1..Len(value.params) |->
        [name |-> value.params[k].name, type |-> value.params[k].type]]

\* C17: every valid signature written without a body, with or without
\* trailing semicolons, parses and yields the function name, its typed
\* parameters in declaration order and a return entry that is absent iff no
\* return type is declared, whatever characters its parameter types contain.
C17_BodylessSignatureParses ==
    (Returned /\ ~ty[1].body) =>
        /\ out[1].result.kind = "Ok"
        /\ out[1].result.value[1].name = ty[1].sig.name
        /\ ReportedParams(out[1].result.value[1]) = TypedParams(ty[1].sig)
        /\ (out[1].result.value[1].return = None) <=> (ty[1].sig.ret = None)

(***************************************************************************)
(* get_error_context.  The source is a character sequence with "\n" line   *)
(* ends; the span of the syn::Error is [line, column, end_line] with       *)
(* 1-based lines and a 0-based column counted in characters.               *)
(***************************************************************************)
NewLine == "\n"

\* str::lines: split at "\n"; a final empty piece is no line
Lines(source) ==
    LET pieces == Split(source, NewLine)
    IN  IF pieces[Len(pieces)] = << >>
        THEN SubSeq(pieces, 1, Len(pieces) - 1)
        ELSE pieces

DigitChars == << "0", "1", "2", "3", "4", "5", "6", "7", "8", "9" >>

\* Display for usize
RECURSIVE ToDigits(_)
ToDigits(n) ==
    IF n < 10 THEN << DigitChars[n + 1] >>
    ELSE Append(ToDigits(n \div 10), DigitChars[(n % 10) + 1])

Spaces(n) == [k \in 1..n |-> Space]

\* format!("{:>w}", s): right-aligned in a field of at least w characters
PadLeft(s, w) == IF Len(s) >= w THEN s ELSE Spaces(w - Len(s)) \o s

saturating_sub(a, b) == IF a >= b THEN a - b ELSE 0

Min(a, b) == IF a <= b THEN a ELSE b

\* line 41: format!("{:>4} | {}\n", line_num, line)
source_row(line_num, line) ==
    PadLeft(ToDigits(line_num), 4) \o << " ", "|", " " >> \o line
        \o << NewLine >>

\* lines 43-44: format!(" Err:|{pad}^\n") with pad of column + 4 spaces
marker_row(column) ==
    << " ", "E", "r", "r", ":", "|" >> \o Spaces(column + 4)
        \o << "^", NewLine >>

\* lines 39-46: the rows of the lines lines[idx..end_line], idx 0-based
RECURSIVE context_rows(_, _, _, _)
context_rows(lines, idx, end_line, span) ==
    IF idx >= end_line THEN << >>
    ELSE source_row(idx + 1, lines[idx + 1])
         \o (IF idx + 1 = span.line THEN marker_row(span.column) ELSE << >>)
         \o context_rows(lines, idx + 1, end_line, span)

get_error_context(source, span) ==
    context_rows(Lines(source), saturating_sub(span.line, 2),
                 Min(span.end_line + 2, Len(Lines(source))), span)

(***************************************************************************)
(* Inputs of get_error_context: every source of at most MaxSrcLines lines  *)
(* of at most MaxSrcCols characters, with or without a final line end, and *)
(* every span that starts at a character of the source.                    *)
(***************************************************************************)
SrcLines == { [k \in 1..n |-> "a"] : n \in 0..MaxSrcCols }

RECURSIVE SrcLineLists(_)
SrcLineLists(n) ==
    IF n = 0 THEN { << >> }
    ELSE SrcLineLists(n - 1)
         \cup { Append(l, x) : l \in SrcLineLists(n - 1) \ { << >> }, x \in SrcLines }
         \cup { << x >> : x \in SrcLines }

Sources ==
    { Join(l, << NewLine >>) \o tail :
        l \in SrcLineLists(MaxSrcLines) \ { << >> },
        tail \in { << >>, << NewLine >> } }

SpansOf(source) ==
    { [line |-> l, column |-> c, end_line |-> e] :
        l \in 1..Len(Lines(source)), c \in 0..MaxSrcCols,
        e \in 1..Len(Lines(source)) }

InitContext ==
    /\ pc = "context"
    /\ text \in Sources
    /\ ty \in { Some(sp) : sp \in { s \in SpansOf(text) :
                    /\ s.column <= Len(Lines(text)[s.line])
                    /\ s.line <= s.end_line } }
    /\ out = None
    /\ parser = NoParser
    /\ table = << >>
    /\ traits = None
    /\ items = << >>
    /\ once = None
    /\ twice = None
    /\ TableBuilt

\* parse_src, line 59: the context of a syn::Error
GetErrorContext ==
    /\ pc = "context"
    /\ out' = Some(get_error_context(text, ty[1]))
    /\ pc' = "context_done"
    /\ UNCHANGED << text, once, twice, table, ty, traits, items, lockvars, parser >>

NextContext == GetErrorContext

SpecContext == InitContext /\ [][NextContext]_vars

\* the rows of a rendered context, without their line ends
RowsOf(context) == Lines(context)

\* position of the row that shows line `n` of the source; the marker row
\* never precedes it
RowOfLine(n, span) == n - saturating_sub(span.line, 2)

\* C21: directly after the row of the line on which the span starts there
\* is a marker row, and the 0-based offset of its caret equals the width of
\* the gutter before the source text plus the start column of the span.
C21_CaretUnderColumn ==
    pc = "context_done" =>
        LET span == ty[1]
            rows == RowsOf(out[1])
            k == RowOfLine(span.line, span)
            gutter == Len(rows[k]) - Len(Lines(text)[span.line])
        IN  /\ k + 1 <= Len(rows)
            /\ FirstIndex(rows[k + 1], "^") - 1 = gutter + span.column

(***************************************************************************)
(* count_unsafe_tokens.  A block is a sequence of statements; a statement  *)
(* is a record [kind, unsafety, block]:                                    *)
(*   "Expr"    a;                      two tokens                          *)
(*   "Block"   { block }               a braced expression                 *)
(*   "Unsafe"  unsafe { block }        syn::Expr::Unsafe                   *)
(*   "Fn"      [unsafe] fn g() { block }   a nested syn::ItemFn            *)
(* A top-level item is a record of the same shape:                         *)
(*   "Fn"      [unsafe] fn f() { block }                                   *)
(*   "Method"  impl S { [unsafe] fn m() { block } }                        *)
(*   "Static"  static X: T = block[1];    block holds the one initialiser  *)
(***************************************************************************)
Stmt(kind, unsafety, block) == [kind |-> kind, unsafety |-> unsafety, block |-> block]

\* count_tokens: a group counts as the tokens inside it, its delimiters as
\* nothing
RECURSIVE count_tokens(_)
RECURSIVE count_stmt_tokens(_)
count_stmt_tokens(stmt) ==
    CASE stmt.kind = "Expr" -> 2
      [] stmt.kind = "Block" -> count_tokens(stmt.block)
      [] stmt.kind = "Unsafe" -> 1 + count_tokens(stmt.block)
      [] OTHER -> (IF stmt.unsafety THEN 3 ELSE 2) + count_tokens(stmt.block)

count_tokens(block) ==
    IF block = << >> THEN 0
    ELSE count_stmt_tokens(Head(block)) + count_tokens(Tail(block))

NewCounter == [total_tokens |-> 0, unsafe_tokens |-> 0]

RECURSIVE visit_block_mut(_, _)
RECURSIVE visit_stmt_mut(_, _)

\* lines 1450-1459; the tokens of the block are handed over already counted
visit_item_fn_counted(counter, func, tokens) ==
    IF func.unsafety
    THEN [total_tokens |-> counter.total_tokens + tokens,
          unsafe_tokens |-> counter.unsafe_tokens + tokens]
    ELSE visit_block_mut([counter EXCEPT !.total_tokens = @ + tokens],
                         func.block)

visit_item_fn_mut(counter, func) ==
    visit_item_fn_counted(counter, func, count_tokens(func.block))

\* lines 1461-1468
visit_expr_mut(counter, expr) ==
    IF expr.kind = "Unsafe"
    THEN [counter EXCEPT !.unsafe_tokens = @ + count_tokens(expr.block)]
    ELSE visit_block_mut(counter, expr.block)

\* syn::visit_mut::visit_stmt_mut: a nested item or an expression
visit_stmt_mut(counter, stmt) ==
    IF stmt.kind = "Fn" THEN visit_item_fn_mut(counter, stmt)
    ELSE visit_expr_mut(counter, stmt)

\* syn::visit_mut::visit_block_mut: the statements in order
visit_block_mut(counter, block) ==
    IF block = << >> THEN counter
    ELSE visit_block_mut(visit_stmt_mut(counter, Head(block)), Tail(block))

\* syn::visit_mut::visit_item_mut: TokenCounter overrides the visit of a
\* free function only; a method body and an initialiser are walked by the
\* default visitor
visit_item_mut(counter, item) ==
    IF item.kind = "Fn" THEN visit_item_fn_mut(counter, item)
    ELSE visit_block_mut(counter, item.block)

RECURSIVE visit_file_mut(_, _)
visit_file_mut(counter, file) ==
    IF file = << >> THEN counter
    ELSE visit_file_mut(visit_item_mut(counter, Head(file)), Tail(file))

\* lines 1473-1481, after the parse
count_unsafe_tokens(file) ==
    << visit_file_mut(NewCounter, file).total_tokens,
       visit_file_mut(NewCounter, file).unsafe_tokens >>

(***************************************************************************)
(* Inputs of count_unsafe_tokens: every unit of at most MaxUnitItems       *)
(* items whose blocks hold at most MaxStmts statements and nest at most    *)
(* MaxNest deep.                                                           *)
(***************************************************************************)
RECURSIVE BlocksOf(_)
RECURSIVE SeqsUpTo(_, _)
SeqsUpTo(set, n) ==
    IF n = 0 THEN { << >> }
    ELSE SeqsUpTo(set, n - 1)
         \cup { Append(b, x) : b \in SeqsUpTo(set, n - 1), x \in set }

ExprsOf(d) ==
    { Stmt("Expr", FALSE, << >>) }
    \cup (IF d = 0 THEN {}
          ELSE { Stmt(k, FALSE, b) : k \in { "Block", "Unsafe" }, b \in BlocksOf(d - 1) })

StmtsOf(d) ==
    ExprsOf(d)
    \cup (IF d = 0 THEN {}
          ELSE { Stmt("Fn", u, b) : u \in BOOLEAN, b \in BlocksOf(d - 1) })

BlocksOf(d) == SeqsUpTo(StmtsOf(d), MaxStmts)

UnitItems ==
    { Stmt(k, u, b) : k \in { "Fn", "Method" }, u \in BOOLEAN, b \in BlocksOf(MaxNest) }
    \cup { Stmt("Static", FALSE, << e >>) : e \in ExprsOf(1) }

InitUnsafe ==
    /\ pc = "count"
    /\ items \in SeqsUpTo(UnitItems, MaxUnitItems)
    /\ out = None
    /\ parser = NoParser
    /\ table = << >>
    /\ ty = None
    /\ traits = None
    /\ text = << >>
    /\ once = None
    /\ twice = None
    /\ TableBuilt

CountUnsafeTokens ==
    /\ pc = "count"
    /\ out' = Some(count_unsafe_tokens(items))
    /\ pc' = "count_done"
    /\ UNCHANGED << text, once, twice, table, ty, traits, items, lockvars, parser >>

NextUnsafe == CountUnsafeTokens

SpecUnsafe == InitUnsafe /\ [][NextUnsafe]_vars

\* C30: in the pair (total_tokens, unsafe_tokens) that count_unsafe_tokens
\* returns, unsafe_tokens is at most total_tokens, wherever the unsafe code
\* of the unit stands.
C30_UnsafeWithinTotal ==
    pc = "count_done" => out[1][2] <= out[1][1]

(***************************************************************************)
(* Every specification together.                                           *)
(***************************************************************************)
Init == InitTokens \/ InitTypes \/ InitPointers \/ InitAliases \/ InitLookup
        \/ InitOnce \/ InitTable \/ InitEntry
        \/ InitSignature \/ InitContext \/ InitUnsafe

Next == NormalizeTokenString \/ ParseTypeTraits \/ NextAliases
        \/ MapLibcScalar \/ NextOnce \/ BuildTable \/ NextEntry
        \/ GetErrorContext \/ CountUnsafeTokens

Spec == Init /\ [][Next]_vars

=============================================================================
